---- MODULE Spec2Model ----
(***************************************************************************)
(* Audit-log enrichment and anomaly classification pipeline.               *)
(*                                                                         *)
(* Values.  A timestamp is the number of hours since Monday 2024-01-01     *)
(* 00:00 (so hour = t % 24 and weekday = (t \div 24) % 7, Monday = 0).     *)
(* Python's None is the string "None"; latitudes and longitudes are the    *)
(* strings of their decimal numerals ("0", "42.3601"), so that a           *)
(* coordinate and None can be compared.  A dict is a function from its     *)
(* keys; d.get(k, default) is Get(d, k, default).                          *)
(***************************************************************************)
EXTENDS Integers, Sequences, FiniteSets, TLC

VARIABLES
    file,               \* the uploaded file: extension, column names, rows
    geo_reader,         \* the GeoLite2 reader the run opens (or none)
    pc,                 \* position of the session in the pipeline
    variant,            \* the module whose parse_audit_logs read the file
    timeline,           \* the event list returned by parse_audit_logs
    index,              \* the input row label of each event of timeline
    error,              \* the exception raised / error text returned
    warning,            \* the skipped-row counts handed to the caller
    printed,            \* "Error parsing AuditData" lines written to stdout
    skipped,            \* rows left out of timeline by the row loop
    lookups,            \* the IPs passed to geo_reader.city, in call order
    ip_geo_cache,       \* parse_audit_logs' cache when it returned
    compromised_events, \* detect_compromised_events(timeline)
    files_accessed,     \* filter_files_accessed(timeline)
    anomalous_ips,      \* filter_anomalous_ips(timeline)
    filter_config,      \* the configuration of the last apply_filters call
    filtered_timeline,  \* apply_filters(timeline, filter_config)
    refiltered,         \* apply_filters(filtered_timeline, filter_config)
    session             \* st.session_state and what the last run of app_new did

vars == <<file, geo_reader, pc, variant, timeline, index, error, warning, printed,
          skipped, lookups, ip_geo_cache, compromised_events, files_accessed,
          anomalous_ips, filter_config, filtered_timeline,
          refiltered, session>>

-----------------------------------------------------------------------------
(* Bounds of the model                                                     *)

\* most rows in an uploaded file
MaxRows == 2
\* most events in a timeline handed directly to the rule engine
MaxEvents == 4
\* the longest timeline of the filter engine's event batch
MaxFiltered == 2
\* the most rows of a file of the successive uploads
MaxRunRows == 1

-----------------------------------------------------------------------------
(* Small helpers                                                           *)

Get(d, k, default) == IF k \in DOMAIN d THEN d[k] ELSE default

Range(s) == {s[i] : i \in 1..Len(s)}

\* sequences over S of length at most n
SeqsUpTo(S, n) == UNION {[1..k -> S] : k \in 0..n}

RECURSIVE Pow2(_)
Pow2(n) == IF n = 0 THEN 1 ELSE 2 * Pow2(n - 1)

-----------------------------------------------------------------------------
(* Geolocation resolver: security_analyzer.py                              *)

KNOWN_IPS ==
    "192.168.1.160" :> [Country |-> "US", Region |-> "Massachusetts",
                        City |-> "Boston", Latitude |-> "42.3601",
                        Longitude |-> "-71.0589"]

\* ipaddress.ip_address(ip): the octets of the strings that parse; a string
\* outside the domain raises ValueError.
IpAddress ==
    "192.168.1.160" :> <<192, 168, 1, 160>> @@
    "10.0.0.5"      :> <<10, 0, 0, 5>> @@
    "172.16.3.4"    :> <<172, 16, 3, 4>> @@
    "172.32.0.1"    :> <<172, 32, 0, 1>> @@
    "203.0.113.5"   :> <<203, 0, 113, 5>> @@
    "198.51.100.7"  :> <<198, 51, 100, 7>> @@
    "8.8.8.8"       :> <<8, 8, 8, 8>> @@
    "5.255.255.5"   :> <<5, 255, 255, 5>>

\* IPv4Address.is_private tests membership in these networks
\* (<<octets, prefix length>> of ipaddress._IPv4Constants._private_networks).
PrivateNetworks ==
    { <<0, 0, 0, 0, 8>>, <<10, 0, 0, 0, 8>>, <<127, 0, 0, 0, 8>>,
      <<169, 254, 0, 0, 16>>, <<172, 16, 0, 0, 12>>, <<192, 0, 0, 0, 29>>,
      <<192, 0, 0, 170, 31>>, <<192, 0, 2, 0, 24>>, <<192, 168, 0, 0, 16>>,
      <<198, 18, 0, 0, 15>>, <<198, 51, 100, 0, 24>>, <<203, 0, 113, 0, 24>>,
      <<240, 0, 0, 0, 4>>, <<255, 255, 255, 255, 32>> }

\* the leading len bits of an address (kept below 2^31: the first three
\* octets as one number, the fourth beside them)
Prefix(o, len) ==
    LET top == (o[1] * 256 + o[2]) * 256 + o[3] IN
    IF len <= 24 THEN <<top \div Pow2(24 - len), 0>>
    ELSE <<top, o[4] \div Pow2(32 - len)>>

InNetwork(o, net) == Prefix(o, net[5]) = Prefix(net, net[5])

\* the three RFC 1918 blocks only
IsRfc1918(ip) ==
    /\ ip \in DOMAIN IpAddress
    /\ \E net \in {<<10, 0, 0, 0, 8>>, <<172, 16, 0, 0, 12>>,
                   <<192, 168, 0, 0, 16>>} : InNetwork(IpAddress[ip], net)

\* is_private_ip answering False for a string that is not an address
is_private_ip_strict(ip) ==
    IF ip = "N/A" THEN TRUE
    ELSE IF ip \notin DOMAIN IpAddress THEN FALSE
    ELSE \E net \in PrivateNetworks : InNetwork(IpAddress[ip], net)

is_private_ip(ip) ==
    IF ip = "N/A" THEN TRUE
    ELSE IF ip \notin DOMAIN IpAddress THEN TRUE
    ELSE \E net \in PrivateNetworks : InNetwork(IpAddress[ip], net)

LocalRecord ==
    [Country |-> "Local", Region |-> "Network", City |-> "Private",
     Latitude |-> "0", Longitude |-> "0"]

UnknownRecord ==
    [Country |-> "Unknown", Region |-> "Unknown", City |-> "Unknown",
     Latitude |-> "0", Longitude |-> "0"]

\* name if name else "Unknown": None and the empty string are falsy
StrOrUnknown(x) == IF x \in {"None", ""} THEN "Unknown" ELSE x

\* the latitude as the database gives it, without the "else 0"
NumAsGiven(x) == x

\* latitude if latitude else 0: None and zero are falsy
NumOrZero(x) == IF x \in {"None", "0", "0.0"} THEN "0" ELSE x

\* get_ip_geolocation without the private-address short-circuit of lines 45-52
get_ip_geolocation_no_private_check(ip, reader) ==
    IF ip \in DOMAIN KNOWN_IPS
    THEN [geo |-> KNOWN_IPS[ip], lookups |-> <<>>]
    ELSE IF reader.available /\ ip # "N/A"
    THEN IF ip \in DOMAIN reader.city
         THEN LET response == reader.city[ip] IN
              [geo |-> [Country   |-> StrOrUnknown(response.iso_code),
                        Region    |-> StrOrUnknown(response.subdivision),
                        City      |-> StrOrUnknown(response.city),
                        Latitude  |-> NumOrZero(response.latitude),
                        Longitude |-> NumOrZero(response.longitude)],
               lookups |-> <<ip>>]
         ELSE [geo |-> UnknownRecord, lookups |-> <<ip>>]
    ELSE [geo |-> UnknownRecord, lookups |-> <<>>]

\* geo_reader.city(ip) answers for the IPs in the domain of reader.city and
\* raises (AddressNotFoundError, ValueError) for every other string.
\* The result is the geo record and the IPs passed to geo_reader.city.
get_ip_geolocation(ip, reader) ==
    IF ip \in DOMAIN KNOWN_IPS
    THEN [geo |-> KNOWN_IPS[ip], lookups |-> <<>>]
    ELSE IF is_private_ip(ip)
    THEN [geo |-> LocalRecord, lookups |-> <<>>]
    ELSE IF reader.available /\ ip # "N/A"
    THEN IF ip \in DOMAIN reader.city
         THEN LET response == reader.city[ip] IN
              [geo |-> [Country   |-> StrOrUnknown(response.iso_code),
                        Region    |-> StrOrUnknown(response.subdivision),
                        City      |-> StrOrUnknown(response.city),
                        Latitude  |-> NumOrZero(response.latitude),
                        Longitude |-> NumOrZero(response.longitude)],
               lookups |-> <<ip>>]
         ELSE [geo |-> UnknownRecord, lookups |-> <<ip>>]
    ELSE [geo |-> UnknownRecord, lookups |-> <<>>]

-----------------------------------------------------------------------------
(* Input: the uploaded file and the GeoLite2 database                      *)

columns_of_interest == <<"CreationDate", "Operation", "UserId", "AuditData">>

\* pd.to_datetime on the CreationDate cells of the model's files
ToDatetime ==
    "2024-01-01T03:00" :> 3 @@
    "2024-01-01T09:00" :> 9

\* json.loads on the AuditData texts of the model's files
JsonLoads ==
    "{\"ClientIP\": \"192.168.1.160\", \"ResultStatus\": \"Succeeded\", \"SourceFileName\": \"report.xlsx\"}"
        :> [kind |-> "dict",
            value |-> [ClientIP |-> "192.168.1.160", ResultStatus |-> "Succeeded",
                       SourceFileName |-> "report.xlsx"]] @@
    "{\"ClientIP\": \"203.0.113.5\", \"ResultStatus\": \"Succeeded\"}"
        :> [kind |-> "dict",
            value |-> [ClientIP |-> "203.0.113.5", ResultStatus |-> "Succeeded"]] @@
    "{\"ClientIP\": \"8.8.8.8\", \"ResultStatus\": \"Failed\"}"
        :> [kind |-> "dict",
            value |-> [ClientIP |-> "8.8.8.8", ResultStatus |-> "Failed"]] @@
    "{\"ClientIP\": \"10.0.0.5\", \"ResultStatus\": \"Succeeded\"}"
        :> [kind |-> "dict",
            value |-> [ClientIP |-> "10.0.0.5", ResultStatus |-> "Succeeded"]] @@
    "{\"ClientIP\": \"5.255.255.5\"}"
        :> [kind |-> "dict", value |-> [ClientIP |-> "5.255.255.5"]] @@
    "{\"ClientIP\": \"not-an-ip\"}"
        :> [kind |-> "dict", value |-> [ClientIP |-> "not-an-ip"]] @@
    "{\"ClientIP\": \"8.8.8.8:443\"}"
        :> [kind |-> "dict", value |-> [ClientIP |-> "8.8.8.8:443"]] @@
    "{}"        :> [kind |-> "dict", value |-> <<>>] @@
    "{ClientIP" :> [kind |-> "JSONDecodeError"] @@
    "123"       :> [kind |-> "int"] @@
    "[1]"       :> [kind |-> "list"] @@
    "\"abc\""   :> [kind |-> "str"] @@
    "null"      :> [kind |-> "NoneType"]

StrCell(text) == [type |-> "str", text |-> text]
\* the float NaN pandas gives an empty cell
NaNCell       == [type |-> "float"]

Row(date, op, user, cell) ==
    [CreationDate |-> date, Operation |-> op, UserId |-> user, AuditData |-> cell]

\* rows whose AuditData is the JSON text of a mapping
ValidRows ==
    { Row("2024-01-01T09:00", "FileAccessed", "alice",
          StrCell("{\"ClientIP\": \"192.168.1.160\", \"ResultStatus\": \"Succeeded\", \"SourceFileName\": \"report.xlsx\"}")),
      Row("2024-01-01T03:00", "SoftDelete", "alice",
          StrCell("{\"ClientIP\": \"203.0.113.5\", \"ResultStatus\": \"Succeeded\"}")),
      Row("2024-01-01T03:00", "FileAccessed", "alice",
          StrCell("{\"ClientIP\": \"8.8.8.8\", \"ResultStatus\": \"Failed\"}")),
      Row("2024-01-01T09:00", "SoftDelete", "bob",
          StrCell("{\"ClientIP\": \"8.8.8.8\", \"ResultStatus\": \"Failed\"}")),
      Row("2024-01-01T09:00", "UserLogin", "bob",
          StrCell("{\"ClientIP\": \"10.0.0.5\", \"ResultStatus\": \"Succeeded\"}")),
      Row("2024-01-01T03:00", "UserLogin", "bob", StrCell("{}")),
      Row("2024-01-01T03:00", "PasswordReset", "bob",
          StrCell("{\"ClientIP\": \"5.255.255.5\"}")),
      Row("2024-01-01T09:00", "UserLoginFailed", "alice",
          StrCell("{\"ClientIP\": \"not-an-ip\"}")),
      Row("2024-01-01T09:00", "UserLogin", "carol",
          StrCell("{\"ClientIP\": \"8.8.8.8:443\"}")),
      Row("2024-01-01T09:00", "FileModified", "bob",
          StrCell("{\"ClientIP\": \"192.168.1.160\", \"ResultStatus\": \"Succeeded\", \"SourceFileName\": \"report.xlsx\"}")) }

\* rows whose AuditData is not JSON text, is JSON text of something that is
\* not a mapping, or is neither text nor a mapping
MalformedRows ==
    { Row("2024-01-01T03:00", "UserLogin", "alice", StrCell("{ClientIP")),
      Row("2024-01-01T09:00", "UserLogin", "alice", StrCell("123")),
      Row("2024-01-01T09:00", "UserLogin", "alice", StrCell("[1]")),
      Row("2024-01-01T03:00", "UserLogin", "alice", StrCell("\"abc\"")),
      Row("2024-01-01T03:00", "UserLogin", "alice", NaNCell) }

RowDomain == ValidRows \cup MalformedRows

IsValidRow(row) ==
    \/ row.AuditData.type = "dict"
    \/ /\ row.AuditData.type = "str"
       /\ JsonLoads[row.AuditData.text].kind = "dict"

RequiredColumns == Range(columns_of_interest)

\* str.lower() on the extensions of the model's files
Lower(ext) == IF ext = ".CSV" THEN ".csv" ELSE ext

\* pd.read_csv without dtype: a column whose cells are all integer numerals
\* or empty is read as numbers (int64, or float64 when a cell is empty), so
\* its cells are not str; with any other text in the column every filled
\* cell is the str of its text
read_csv(rows) ==
    LET numeral(k) == /\ rows[k].AuditData.type = "str"
                      /\ JsonLoads[rows[k].AuditData.text].kind = "int"
        empty(k)   == rows[k].AuditData.type = "float"
        numeric    == /\ \E k \in 1..Len(rows) : numeral(k)
                      /\ \A k \in 1..Len(rows) : numeral(k) \/ empty(k)
        dtype      == IF \E k \in 1..Len(rows) : empty(k) THEN "float" ELSE "int"
    IN IF numeric
       THEN [k \in 1..Len(rows) |-> [rows[k] EXCEPT !.AuditData = [type |-> dtype]]]
       ELSE rows

\* pd.read_csv on a file without a header line raises
\* EmptyDataError("No columns to parse from file"): line 127
EmptyData(f) == Lower(f.extension) = ".csv" /\ f.columns = {}

\* the rows of the DataFrame of a file: lines 126-129
ReadFile(f) == IF Lower(f.extension) = ".csv" THEN read_csv(f.rows) ELSE f.rows

Files ==
    \* the four required columns, any rows
    { [extension |-> ".csv", columns |-> RequiredColumns, rows |-> rs] :
        rs \in SeqsUpTo(RowDomain, MaxRows) }
    \cup
    \* some required column absent (the cells of an absent column are never
    \* read); the file without a header line is the empty file
    { f \in { [extension |-> ".csv", columns |-> cs \cup extra, rows |-> rs] :
                cs \in (SUBSET RequiredColumns) \ {RequiredColumns},
                extra \in {{}, {"Workload"}},
                rs \in SeqsUpTo(MalformedRows, 1) } :
        f.columns = {} => f.rows = <<>> }
    \cup
    \* a file type that is not read
    { [extension |-> ".txt", columns |-> RequiredColumns, rows |-> <<>>] }
    \cup
    \* an extension in capitals
    { [extension |-> ".CSV", columns |-> RequiredColumns, rows |-> rs] :
        rs \in SeqsUpTo({ Row("2024-01-01T09:00", "FileAccessed", "alice",
                               StrCell("{\"ClientIP\": \"192.168.1.160\", \"ResultStatus\": \"Succeeded\", \"SourceFileName\": \"report.xlsx\"}")) }, 1) \ {<<>>} }

Response(iso, sub, city, lat, lon) ==
    [iso_code |-> iso, subdivision |-> sub, city |-> city,
     latitude |-> lat, longitude |-> lon]

\* the databases of the model: none found on disk; one that knows every
\* address of the model; one with incomplete entries and unknown addresses
Readers ==
    { [available |-> FALSE, city |-> <<>>],
      [available |-> TRUE,
       city |-> "203.0.113.5" :> Response("RU", "Moscow", "Moscow", "55.7558", "37.6173") @@
                "8.8.8.8"     :> Response("US", "Massachusetts", "Boston", "42.3601", "-71.0589") @@
                "10.0.0.5"    :> Response("CN", "Beijing", "Beijing", "39.9042", "116.4074") @@
                "192.168.1.160" :> Response("RU", "Moscow", "Moscow", "55.7558", "37.6173")],
      [available |-> TRUE,
       city |-> "8.8.8.8" :> Response("CN", "None", "None", "None", "None")] }

-----------------------------------------------------------------------------
(* Log normalizer: security_analyzer.parse_audit_logs                      *)

\* df.sort_values(by='CreationDate') with pandas' default kind='quicksort':
\* the argsort of the keys by numpy's quicksort.  A range of more than
\* SMALL_QUICKSORT + 1 labels is partitioned around the median of its first,
\* middle and last key, and the partition swaps labels of equal keys; a
\* shorter range is sorted by insertion, which keeps labels of equal keys in
\* place.  The depth guard of the sort (twice the bit length of the number of
\* rows) is not reached by the files of the model.
SMALL_QUICKSORT == 16

Swap(a, i, j) == [a EXCEPT ![i] = a[j], ![j] = a[i]]

\* the insertion of label vi into the sorted a[pl..pj-1]
RECURSIVE Shift(_, _, _, _, _)
Shift(a, key, pl, pj, vi) ==
    IF pj > pl /\ key[vi] < key[a[pj - 1]]
    THEN Shift([a EXCEPT ![pj] = a[pj - 1]], key, pl, pj - 1, vi)
    ELSE [a EXCEPT ![pj] = vi]

RECURSIVE InsertionSort(_, _, _, _, _)
InsertionSort(a, key, pl, pr, pi) ==
    IF pi > pr THEN a
    ELSE InsertionSort(Shift(a, key, pl, pi, a[pi]), key, pl, pr, pi + 1)

\* do { ++pi; } while (key < vp)
RECURSIVE ScanUp(_, _, _, _)
ScanUp(a, key, pi, vp) ==
    IF key[a[pi + 1]] < vp THEN ScanUp(a, key, pi + 1, vp) ELSE pi + 1

\* do { --pj; } while (vp < key)
RECURSIVE ScanDown(_, _, _, _)
ScanDown(a, key, pj, vp) ==
    IF vp < key[a[pj - 1]] THEN ScanDown(a, key, pj - 1, vp) ELSE pj - 1

RECURSIVE Partition(_, _, _, _, _)
Partition(a, key, pi, pj, vp) ==
    LET i == ScanUp(a, key, pi, vp)
        j == ScanDown(a, key, pj, vp)
    IN IF i >= j THEN [a |-> a, pi |-> i]
       ELSE Partition(Swap(a, i, j), key, i, j, vp)

RECURSIVE QuickSort(_, _, _, _)
QuickSort(a, key, pl, pr) ==
    IF pr - pl > SMALL_QUICKSORT
    THEN LET pm   == pl + ((pr - pl) \div 2)
             a1   == IF key[a[pm]] < key[a[pl]] THEN Swap(a, pm, pl) ELSE a
             a2   == IF key[a1[pr]] < key[a1[pm]] THEN Swap(a1, pr, pm) ELSE a1
             a3   == IF key[a2[pm]] < key[a2[pl]] THEN Swap(a2, pm, pl) ELSE a2
             vp   == key[a3[pm]]
             part == Partition(Swap(a3, pm, pr - 1), key, pl, pr - 1, vp)
             a4   == Swap(part.a, part.pi, pr - 1)
         IN QuickSort(QuickSort(a4, key, pl, part.pi - 1), key, part.pi + 1, pr)
    ELSE InsertionSort(a, key, pl, pr, pl + 1)

\* the row labels in the order the sort leaves them
SortValues(rows) ==
    LET key == [k \in 1..Len(rows) |-> ToDatetime[rows[k].CreationDate]]
    IN QuickSort([k \in 1..Len(rows) |-> k], key, 1, Len(rows))

\* the state of the row loop
\* the loop starting from the cache the previous call left behind
LoopStartCarried ==
    [timeline |-> <<>>, index |-> <<>>, cache |-> ip_geo_cache, lookups |-> <<>>,
     printed |-> 0, skipped |-> 0, error_count |-> 0, raised |-> "None"]

\* lines 146-148: timeline = [] and ip_geo_cache = {}, locals of the call
LoopStart ==
    [timeline |-> <<>>, index |-> <<>>, cache |-> <<>>, lookups |-> <<>>,
     printed |-> 0, skipped |-> 0, error_count |-> 0, raised |-> "None"]

\* the event of a row without the cache test of line 178
AppendEvent_no_cache(st, label, row, audit_data, reader) ==
    LET ip  == Get(audit_data, "ClientIP", "N/A")
        hit == FALSE
        res == IF hit THEN [geo |-> st.cache[ip], lookups |-> <<>>]
                      ELSE get_ip_geolocation(ip, reader)
        event ==
            [Timestamp    |-> ToDatetime[row.CreationDate],
             Operation    |-> row.Operation,
             UserId       |-> row.UserId,
             ClientIP     |-> ip,
             ResultStatus |-> Get(audit_data, "ResultStatus", "N/A"),
             FileName     |-> IF row.Operation = "FileAccessed"
                              THEN Get(audit_data, "SourceFileName", "N/A")
                              ELSE "",
             Country      |-> res.geo.Country,
             Region       |-> res.geo.Region,
             City         |-> res.geo.City,
             Latitude     |-> res.geo.Latitude,
             Longitude    |-> res.geo.Longitude]
    IN [st EXCEPT !.timeline = Append(@, event),
                  !.index    = Append(@, label),
                  !.cache    = IF hit THEN @ ELSE (ip :> res.geo) @@ @,
                  !.lookups  = @ \o res.lookups]

\* the event of a row with the file name of the blob whatever the operation
AppendEvent_any_file(st, label, row, audit_data, reader) ==
    LET ip  == Get(audit_data, "ClientIP", "N/A")
        hit == ip \in DOMAIN st.cache
        res == IF hit THEN [geo |-> st.cache[ip], lookups |-> <<>>]
                      ELSE get_ip_geolocation(ip, reader)
        event ==
            [Timestamp    |-> ToDatetime[row.CreationDate],
             Operation    |-> row.Operation,
             UserId       |-> row.UserId,
             ClientIP     |-> ip,
             ResultStatus |-> Get(audit_data, "ResultStatus", "N/A"),
             FileName     |-> Get(audit_data, "SourceFileName", "N/A"),
             Country      |-> res.geo.Country,
             Region       |-> res.geo.Region,
             City         |-> res.geo.City,
             Latitude     |-> res.geo.Latitude,
             Longitude    |-> res.geo.Longitude]
    IN [st EXCEPT !.timeline = Append(@, event),
                  !.index    = Append(@, label),
                  !.cache    = IF hit THEN @ ELSE (ip :> res.geo) @@ @,
                  !.lookups  = @ \o res.lookups]

\* lines 160-186: the event of a row whose AuditData is the mapping audit_data
AppendEvent(st, label, row, audit_data, reader) ==
    LET ip  == Get(audit_data, "ClientIP", "N/A")
        hit == ip \in DOMAIN st.cache
        res == IF hit THEN [geo |-> st.cache[ip], lookups |-> <<>>]
                      ELSE get_ip_geolocation(ip, reader)
        event ==
            [Timestamp    |-> ToDatetime[row.CreationDate],
             Operation    |-> row.Operation,
             UserId       |-> row.UserId,
             ClientIP     |-> ip,
             ResultStatus |-> Get(audit_data, "ResultStatus", "N/A"),
             FileName     |-> IF row.Operation = "FileAccessed"
                              THEN Get(audit_data, "SourceFileName", "N/A")
                              ELSE "",
             Country      |-> res.geo.Country,
             Region       |-> res.geo.Region,
             City         |-> res.geo.City,
             Latitude     |-> res.geo.Latitude,
             Longitude    |-> res.geo.Longitude]
    IN [st EXCEPT !.timeline = Append(@, event),
                  !.index    = Append(@, label),
                  !.cache    = IF hit THEN @ ELSE (ip :> res.geo) @@ @,
                  !.lookups  = @ \o res.lookups]

\* lines 150-188: one pass of the loop body.  json.JSONDecodeError is the only
\* exception the loop catches; any other leaves the loop and the function.
ParseRow(st, label, row, reader) ==
    LET cell == row.AuditData IN
    IF cell.type = "str"
    THEN LET parsed == JsonLoads[cell.text] IN
         IF parsed.kind = "JSONDecodeError"
         THEN [st EXCEPT !.printed = @ + 1, !.skipped = @ + 1]
         ELSE IF parsed.kind # "dict"
         THEN [st EXCEPT !.raised = "AttributeError"]
         ELSE AppendEvent(st, label, row, parsed.value, reader)
    ELSE IF cell.type # "dict"
    THEN [st EXCEPT !.skipped = @ + 1]
    ELSE AppendEvent(st, label, row, cell.value, reader)

RECURSIVE ParseRows(_, _, _, _, _)
ParseRows(st, rows, order, k, reader) ==
    IF k > Len(order) \/ st.raised # "None" THEN st
    ELSE ParseRows(ParseRow(st, order[k], rows[order[k]], reader),
                   rows, order, k + 1, reader)

\* lines 133-137: the first required column that is absent, if any
RECURSIVE FirstMissing(_, _)
FirstMissing(cols, k) ==
    IF k > Len(columns_of_interest) THEN <<>>
    ELSE IF columns_of_interest[k] \notin cols THEN <<columns_of_interest[k]>>
    ELSE FirstMissing(cols, k + 1)

NoError == [type |-> "None", columns |-> <<>>]

\* the outcome of parse_audit_logs(file_path), order being the sorted row labels
parse_audit_logs(f, reader, order) ==
    LET fail(type, cols) ==
            [LoopStart EXCEPT !.raised = type] @@ [columns |-> cols]
    IN
    IF Lower(f.extension) \notin {".csv", ".xlsx", ".xls"}
    THEN fail("ValueError: Unsupported file format", <<>>)
    ELSE IF EmptyData(f)
    THEN fail("EmptyDataError: No columns to parse from file", <<>>)
    ELSE IF FirstMissing(f.columns, 1) # <<>>
    THEN fail("ValueError: Required column not found", FirstMissing(f.columns, 1))
    ELSE ParseRows(LoopStart, ReadFile(f), order, 1, reader) @@ [columns |-> <<>>]

\* app_new.process_data up to the return of parse_audit_logs: an exception
\* leaves no timeline behind
ParseAuditLogs ==
    /\ pc = "uploaded"
    /\ LET order == SortValues(file.rows) IN
         LET r == parse_audit_logs(file, geo_reader, order) IN
         /\ pc' = IF r.raised = "None" THEN "parsed" ELSE "failed"
         /\ variant' = "security_analyzer"
         /\ timeline' = IF r.raised = "None" THEN r.timeline ELSE <<>>
         /\ index' = IF r.raised = "None" THEN r.index ELSE <<>>
         /\ error' = [type |-> r.raised, columns |-> r.columns]
         /\ warning' = {}
         /\ printed' = r.printed
         /\ skipped' = r.skipped
         /\ lookups' = r.lookups
         /\ ip_geo_cache' = r.cache
    /\ UNCHANGED <<session, file, geo_reader, compromised_events, files_accessed,
                   anomalous_ips, filter_config, filtered_timeline,
                   refiltered>>

-----------------------------------------------------------------------------
(* Anomaly / risk rule engine: security_analyzer.py                        *)

\* is_ip_anomalous with "and" for the "or" of line 213
is_ip_anomalous_and(event) ==
    LET ip      == Get(event, "ClientIP", "N/A")
        country == Get(event, "Country", "Unknown")
        region  == Get(event, "Region", "Unknown")
    IN IF ip = "192.168.1.160" THEN FALSE
       ELSE IF country # "US" /\ region # "Massachusetts" THEN TRUE
       ELSE FALSE

\* is_ip_anomalous taking a local address for a known one
is_ip_anomalous_local_ok(event) ==
    LET ip      == Get(event, "ClientIP", "N/A")
        country == Get(event, "Country", "Unknown")
        region  == Get(event, "Region", "Unknown")
    IN IF ip = "192.168.1.160" THEN FALSE
       ELSE IF country = "Local" THEN FALSE
       ELSE IF country # "US" \/ region # "Massachusetts" THEN TRUE
       ELSE FALSE

is_ip_anomalous(event) ==
    LET ip      == Get(event, "ClientIP", "N/A")
        country == Get(event, "Country", "Unknown")
        region  == Get(event, "Region", "Unknown")
    IN IF ip = "192.168.1.160" THEN FALSE
       ELSE IF country # "US" \/ region # "Massachusetts" THEN TRUE
       ELSE FALSE

\* lines 229-235: user_ip_map after the first k events
RECURSIVE UserIpMap(_, _)
UserIpMap(tl, k) ==
    IF k = 0 THEN <<>>
    ELSE LET m     == UserIpMap(tl, k - 1)
             user  == tl[k].UserId
             known == IF user \in DOMAIN m THEN m[user] ELSE {}
         IN (user :> (known \cup {tl[k].ClientIP})) @@ m

\* the subsequence of s of the elements at the positions satisfying keep
RECURSIVE Keep(_, _, _)
Keep(s, keep(_), k) ==
    IF k > Len(s) THEN <<>>
    ELSE (IF keep(k) THEN <<s[k]>> ELSE <<>>) \o Keep(s, keep, k + 1)

SuspiciousThreshold == 3

\* detect_compromised_events with ">= 3" for the "> 3" of line 240
detect_compromised_events_ge(tl) ==
    LET suspicious_ops == {"SoftDelete", "MoveToDeletedItems"}
        user_ip_map == UserIpMap(tl, Len(tl))
        compromised(k) ==
            LET suspicious_activity ==
                    \/ tl[k].Operation \in suspicious_ops
                    \/ Cardinality(user_ip_map[tl[k].UserId]) >= SuspiciousThreshold
            IN suspicious_activity /\ is_ip_anomalous(tl[k])
    IN Keep(tl, compromised, 1)

\* detect_compromised_events without the is_ip_anomalous test of line 241
detect_compromised_events_any_ip(tl) ==
    LET suspicious_ops == {"SoftDelete", "MoveToDeletedItems"}
        user_ip_map == UserIpMap(tl, Len(tl))
        compromised(k) ==
            LET suspicious_activity ==
                    \/ tl[k].Operation \in suspicious_ops
                    \/ Cardinality(user_ip_map[tl[k].UserId]) > SuspiciousThreshold
            IN suspicious_activity
    IN Keep(tl, compromised, 1)

detect_compromised_events(tl) ==
    LET suspicious_ops == {"SoftDelete", "MoveToDeletedItems"}
        user_ip_map == UserIpMap(tl, Len(tl))
        compromised(k) ==
            LET suspicious_activity ==
                    \/ tl[k].Operation \in suspicious_ops
                    \/ Cardinality(user_ip_map[tl[k].UserId]) > SuspiciousThreshold
            IN suspicious_activity /\ is_ip_anomalous(tl[k])
    IN Keep(tl, compromised, 1)

filter_files_accessed(tl) ==
    LET accessed(k) == tl[k].Operation = "FileAccessed" IN Keep(tl, accessed, 1)

filter_anomalous_ips(tl) ==
    LET anomalous(k) == is_ip_anomalous(tl[k]) IN Keep(tl, anomalous, 1)

\* Values of an event's Timestamp that are not a time, as numbers below
\* zero: pd.NaT (what pd.to_datetime makes of an empty CreationDate cell),
\* None (the event has no Timestamp) and a string that is not a date.
NaT == -1
NoTimestamp == -2
BadTimestamp == -3

\* pd.to_datetime(event.get('Timestamp')) followed by .hour: pd.to_datetime
\* raises on the string and returns None for None, whose .hour raises; the
\* hour and the weekday of NaT are nan, below and above nothing
Raises(t) == t \in {NoTimestamp, BadTimestamp}
IsTime(t) == t >= 0

\* pd.to_datetime(event.get('Timestamp')) and its hour and weekday()
Hour(t)    == t % 24
Weekday(t) == (t \div 24) % 7

HighRiskCountries == {"Unknown", "CN", "RU", "KP", "IR"}
LowRiskCountries  == {"US", "CA", "GB", "DE", "FR", "AU", "JP"}
high_risk_ops     == {"SoftDelete", "MoveToDeletedItems", "UserLoginFailed", "PasswordReset"}
medium_risk_ops   == {"FileAccessed", "FileModified", "UserLogin"}

\* lines 257-264
GeographicRisk(event) ==
    LET country == Get(event, "Country", "Unknown") IN
    IF country \in HighRiskCountries THEN 3
    ELSE IF country \notin LowRiskCountries THEN 2
    ELSE IF country = "Local" THEN 0
    ELSE 0

\* lines 266-274
OperationRisk(event) ==
    LET operation == Get(event, "Operation", "") IN
    IF operation \in high_risk_ops THEN 3
    ELSE IF operation \in medium_risk_ops THEN 1
    ELSE 0

\* the time factor with "hour >= 18" for the "hour > 18" of line 283
TimeRisk_from_18(event) ==
    LET t == event.Timestamp IN
    IF ~IsTime(t) THEN 0
    ELSE (IF Hour(t) < 8 \/ Hour(t) >= 18 THEN 1 ELSE 0)
         + (IF Weekday(t) >= 5 THEN 1 ELSE 0)

\* lines 276-290
TimeRisk(event) ==
    LET t == event.Timestamp IN
    IF ~IsTime(t) THEN 0
    ELSE (IF Hour(t) < 8 \/ Hour(t) > 18 THEN 1 ELSE 0)
         + (IF Weekday(t) >= 5 THEN 1 ELSE 0)

risk_score(event) == GeographicRisk(event) + OperationRisk(event) + TimeRisk(event)

\* assign_risk_level raising the level of an event that carries one already
assign_risk_level_again(event) ==
    IF "RiskLevel" \in DOMAIN event THEN "High"
    ELSE IF risk_score(event) >= 5 THEN "High"
    ELSE IF risk_score(event) >= 2 THEN "Medium"
    ELSE "Low"

assign_risk_level(event) ==
    IF risk_score(event) >= 5 THEN "High"
    ELSE IF risk_score(event) >= 2 THEN "Medium"
    ELSE "Low"

\* word in operation, for the operation names of the model
OperationWords ==
    "UserLoginFailed" :> {"Failed"} @@
    "AccessDenied"    :> {"Denied"} @@
    "AddAdminRole"    :> {"Admin"} @@
    "ElevateAccess"   :> {"Elevate"} @@
    "GrantPermission" :> {"Grant"} @@
    "AdminLoginFailed" :> {"Admin", "Failed"}

Contains(operation, word) == word \in Get(OperationWords, operation, {})

\* classify_anomaly_type returning the first label that applies alone
classify_anomaly_type_first(event) ==
    LET country   == Get(event, "Country", "Unknown")
        t         == event.Timestamp
        operation == Get(event, "Operation", "")
        anomaly_types ==
            (IF country \notin {"US", "Local"} /\ is_ip_anomalous(event)
             THEN <<"Geographic Anomaly">> ELSE <<>>)
            \o (IF ~IsTime(t) THEN <<>>
                ELSE IF Hour(t) < 6 \/ Hour(t) > 22 THEN <<"Time Anomaly">>
                ELSE IF Weekday(t) >= 5 THEN <<"Time Anomaly">>
                ELSE <<>>)
            \o (IF operation \in {"SoftDelete", "MoveToDeletedItems", "PasswordReset"}
                THEN <<"Access Pattern Anomaly">> ELSE <<>>)
            \o (IF Contains(operation, "Failed") \/ Contains(operation, "Denied")
                THEN <<"Failed Authentication">> ELSE <<>>)
            \o (IF \/ Contains(operation, "Admin")
                   \/ Contains(operation, "Elevate")
                   \/ Contains(operation, "Grant")
                THEN <<"Privilege Escalation">> ELSE <<>>)
    IN IF anomaly_types # <<>> THEN <<anomaly_types[1]>> ELSE <<"General Anomaly">>

\* classify_anomaly_type adding its labels to those the event carries
classify_anomaly_type_accumulate(event) ==
    LET country   == Get(event, "Country", "Unknown")
        t         == event.Timestamp
        operation == Get(event, "Operation", "")
        anomaly_types ==
            (IF country \notin {"US", "Local"} /\ is_ip_anomalous(event)
             THEN <<"Geographic Anomaly">> ELSE <<>>)
            \o (IF ~IsTime(t) THEN <<>>
                ELSE IF Hour(t) < 6 \/ Hour(t) > 22 THEN <<"Time Anomaly">>
                ELSE IF Weekday(t) >= 5 THEN <<"Time Anomaly">>
                ELSE <<>>)
            \o (IF operation \in {"SoftDelete", "MoveToDeletedItems", "PasswordReset"}
                THEN <<"Access Pattern Anomaly">> ELSE <<>>)
            \o (IF Contains(operation, "Failed") \/ Contains(operation, "Denied")
                THEN <<"Failed Authentication">> ELSE <<>>)
            \o (IF \/ Contains(operation, "Admin")
                   \/ Contains(operation, "Elevate")
                   \/ Contains(operation, "Grant")
                THEN <<"Privilege Escalation">> ELSE <<>>)
    IN Get(event, "AnomalyTypes", <<>>)
       \o (IF anomaly_types # <<>> THEN anomaly_types ELSE <<"General Anomaly">>)

\* lines 300-336
classify_anomaly_type(event) ==
    LET country   == Get(event, "Country", "Unknown")
        t         == event.Timestamp
        operation == Get(event, "Operation", "")
        anomaly_types ==
            (IF country \notin {"US", "Local"} /\ is_ip_anomalous(event)
             THEN <<"Geographic Anomaly">> ELSE <<>>)
            \o (IF ~IsTime(t) THEN <<>>
                ELSE IF Hour(t) < 6 \/ Hour(t) > 22 THEN <<"Time Anomaly">>
                ELSE IF Weekday(t) >= 5 THEN <<"Time Anomaly">>
                ELSE <<>>)
            \o (IF operation \in {"SoftDelete", "MoveToDeletedItems", "PasswordReset"}
                THEN <<"Access Pattern Anomaly">> ELSE <<>>)
            \o (IF Contains(operation, "Failed") \/ Contains(operation, "Denied")
                THEN <<"Failed Authentication">> ELSE <<>>)
            \o (IF \/ Contains(operation, "Admin")
                   \/ Contains(operation, "Elevate")
                   \/ Contains(operation, "Grant")
                THEN <<"Privilege Escalation">> ELSE <<>>)
    IN IF anomaly_types # <<>> THEN anomaly_types ELSE <<"General Anomaly">>

-----------------------------------------------------------------------------
(* Filter engine: security_analyzer.py                                     *)

\* A configuration holds every key; a value that Python takes as false
\* (None, an empty list) stands for an absent one.  start_time and end_time
\* are <<>> for None and <<h>> for the time h:00.
EmptyConfig ==
    [risk_levels |-> {}, anomaly_types |-> {}, excluded_countries |-> {},
     time_filter_type |-> "None", ip_filter_options |-> {},
     start_time |-> <<>>, end_time |-> <<>>]

FrequentThreshold == 10

\* lines 345-350
Annotate(event) ==
    LET with_risk == ("RiskLevel" :> assign_risk_level(event)) @@ event
    IN ("AnomalyTypes" :> classify_anomaly_type(with_risk)) @@ with_risk

\* apply_time_filter taking the working day to end after 18:59 for the
\* "Outside Business Hours" mode
apply_time_filter_until_18(events, config) ==
    LET time_filter == config.time_filter_type
        known == {"Business Hours Only", "Outside Business Hours",
                  "Weekends Only", "Custom Range"}
        both  == config.start_time # <<>> /\ config.end_time # <<>>
        keep(k) ==
            LET t       == events[k].Timestamp
                hour    == Hour(t)
                weekday == Weekday(t)
            IN IF Raises(t) THEN TRUE                  \* line 407
               ELSE IF t = NaT
               THEN \* every comparison with nan is false; timestamp.time()
                    \* of line 403 raises on NaT
                    time_filter \notin known \/ (time_filter = "Custom Range" /\ both)
               ELSE IF time_filter = "Business Hours Only"
               THEN 8 <= hour /\ hour <= 17 /\ weekday < 5
               ELSE IF time_filter = "Outside Business Hours"
               THEN hour < 8 \/ hour > 18 \/ weekday >= 5
               ELSE IF time_filter = "Weekends Only"
               THEN weekday >= 5
               ELSE IF time_filter = "Custom Range"
               THEN /\ both
                    /\ config.start_time[1] <= hour
                    /\ hour <= config.end_time[1]
               ELSE TRUE
    IN IF time_filter = "None" THEN events ELSE Keep(events, keep, 1)

\* lines 376-411
apply_time_filter(events, config) ==
    LET time_filter == config.time_filter_type
        known == {"Business Hours Only", "Outside Business Hours",
                  "Weekends Only", "Custom Range"}
        both  == config.start_time # <<>> /\ config.end_time # <<>>
        keep(k) ==
            LET t       == events[k].Timestamp
                hour    == Hour(t)
                weekday == Weekday(t)
            IN IF Raises(t) THEN TRUE                  \* line 407
               ELSE IF t = NaT
               THEN \* every comparison with nan is false; timestamp.time()
                    \* of line 403 raises on NaT
                    time_filter \notin known \/ (time_filter = "Custom Range" /\ both)
               ELSE IF time_filter = "Business Hours Only"
               THEN 8 <= hour /\ hour <= 17 /\ weekday < 5
               ELSE IF time_filter = "Outside Business Hours"
               THEN hour < 8 \/ hour > 17 \/ weekday >= 5
               ELSE IF time_filter = "Weekends Only"
               THEN weekday >= 5
               ELSE IF time_filter = "Custom Range"
               THEN /\ both
                    /\ config.start_time[1] <= hour
                    /\ hour <= config.end_time[1]
               ELSE TRUE
    IN IF time_filter = "None" THEN events ELSE Keep(events, keep, 1)

\* apply_ip_pattern_filter where one country is enough for Cross-country IPs
apply_ip_pattern_filter_any_country(events, config) ==
    LET ip_options == config.ip_filter_options
        ip_of(k) == Get(events[k], "ClientIP", "N/A")
        ip_counts(ip) == Cardinality({k \in 1..Len(events) : ip_of(k) = ip})
        ip_countries(ip) ==
            {Get(events[k], "Country", "Unknown") : k \in {j \in 1..Len(events) : ip_of(j) = ip}}
        include_event(k) ==
            \/ "First-time IPs" \in ip_options /\ ip_counts(ip_of(k)) = 1
            \/ "Frequent IPs" \in ip_options /\ ip_counts(ip_of(k)) > FrequentThreshold
            \/ "Single-use IPs" \in ip_options /\ ip_counts(ip_of(k)) = 1
            \/ "Cross-country IPs" \in ip_options
                 /\ Cardinality(ip_countries(ip_of(k))) > 0
    IN IF ip_options = {} THEN events ELSE Keep(events, include_event, 1)

apply_ip_pattern_filter(events, config) ==
    LET ip_options == config.ip_filter_options
        ip_of(k) == Get(events[k], "ClientIP", "N/A")
        ip_counts(ip) == Cardinality({k \in 1..Len(events) : ip_of(k) = ip})
        ip_countries(ip) ==
            {Get(events[k], "Country", "Unknown") : k \in {j \in 1..Len(events) : ip_of(j) = ip}}
        include_event(k) ==
            \/ "First-time IPs" \in ip_options /\ ip_counts(ip_of(k)) = 1
            \/ "Frequent IPs" \in ip_options /\ ip_counts(ip_of(k)) > FrequentThreshold
            \/ "Single-use IPs" \in ip_options /\ ip_counts(ip_of(k)) = 1
            \/ "Cross-country IPs" \in ip_options
                 /\ Cardinality(ip_countries(ip_of(k))) > 1
    IN IF ip_options = {} THEN events ELSE Keep(events, include_event, 1)

\* line 347, event_copy = event.copy(): the dicts are objects of a heap (a
\* sequence of dicts, an object's reference being its position); the copy is
\* a new object with the fields of the event
EventAlias(heap, ref) == [heap |-> heap, ref |-> ref]

EventCopy(heap, ref) == [heap |-> Append(heap, heap[ref]), ref |-> Len(heap) + 1]

\* lines 345-350: the loop over events[k..], whose items are the objects
\* 1..Len(events) of the heap; refs collects filtered_events
RECURSIVE AnnotateAll(_, _, _, _)
AnnotateAll(heap, refs, k, n) ==
    IF k > n THEN [heap |-> heap, refs |-> refs]
    ELSE LET event_copy == EventCopy(heap, k)
             annotated  == [event_copy.heap EXCEPT ![event_copy.ref] = Annotate(@)]
         IN AnnotateAll(annotated, Append(refs, event_copy.ref), k + 1, n)

\* the list passed to apply_filters as the call leaves it
apply_filters_source(events) ==
    IF events = <<>> THEN events
    ELSE SubSeq(AnnotateAll(events, <<>>, 1, Len(events)).heap, 1, Len(events))

\* apply_filters applying the risk level stage with or without risk_levels
apply_filters_always_risk(events, config) ==
    IF events = <<>> THEN events
    ELSE
    LET loop == AnnotateAll(events, <<>>, 1, Len(events))
        annotated == [k \in 1..Len(events) |-> loop.heap[loop.refs[k]]]
        risk(k) == annotated[k].RiskLevel \in config.risk_levels
        by_risk == Keep(annotated, risk, 1)
        anomaly(k) == Range(by_risk[k].AnomalyTypes) \cap config.anomaly_types # {}
        by_anomaly == IF config.anomaly_types # {}
                      THEN Keep(by_risk, anomaly, 1) ELSE by_risk
        country(k) ==
            Get(by_anomaly[k], "Country", "Unknown") \notin config.excluded_countries
        by_country == IF config.excluded_countries # {}
                      THEN Keep(by_anomaly, country, 1) ELSE by_anomaly
        by_time == IF config.time_filter_type # "None"
                   THEN apply_time_filter(by_country, config) ELSE by_country
    IN IF config.ip_filter_options # {}
       THEN apply_ip_pattern_filter(by_time, config) ELSE by_time

\* apply_filters without the geographic stage of lines 361-364
apply_filters_no_country(events, config) ==
    IF events = <<>> THEN events
    ELSE
    LET loop == AnnotateAll(events, <<>>, 1, Len(events))
        annotated == [k \in 1..Len(events) |-> loop.heap[loop.refs[k]]]
        risk(k) == annotated[k].RiskLevel \in config.risk_levels
        by_risk == IF config.risk_levels # {}
                   THEN Keep(annotated, risk, 1) ELSE annotated
        anomaly(k) == Range(by_risk[k].AnomalyTypes) \cap config.anomaly_types # {}
        by_anomaly == IF config.anomaly_types # {}
                      THEN Keep(by_risk, anomaly, 1) ELSE by_risk
        country(k) ==
            Get(by_anomaly[k], "Country", "Unknown") \notin config.excluded_countries
        by_country == by_anomaly
        by_time == IF config.time_filter_type # "None"
                   THEN apply_time_filter(by_country, config) ELSE by_country
    IN IF config.ip_filter_options # {}
       THEN apply_ip_pattern_filter(by_time, config) ELSE by_time

\* apply_filters with the IP pattern stage before the time stage
apply_filters_ip_before_time(events, config) ==
    IF events = <<>> THEN events
    ELSE
    LET loop == AnnotateAll(events, <<>>, 1, Len(events))
        annotated == [k \in 1..Len(events) |-> loop.heap[loop.refs[k]]]
        risk(k) == annotated[k].RiskLevel \in config.risk_levels
        by_risk == IF config.risk_levels # {}
                   THEN Keep(annotated, risk, 1) ELSE annotated
        anomaly(k) == Range(by_risk[k].AnomalyTypes) \cap config.anomaly_types # {}
        by_anomaly == IF config.anomaly_types # {}
                      THEN Keep(by_risk, anomaly, 1) ELSE by_risk
        country(k) ==
            Get(by_anomaly[k], "Country", "Unknown") \notin config.excluded_countries
        by_country == IF config.excluded_countries # {}
                      THEN Keep(by_anomaly, country, 1) ELSE by_anomaly
        by_ip == IF config.ip_filter_options # {}
                 THEN apply_ip_pattern_filter(by_country, config) ELSE by_country
    IN IF config.time_filter_type # "None"
       THEN apply_time_filter(by_ip, config) ELSE by_ip

apply_filters(events, config) ==
    IF events = <<>> THEN events
    ELSE
    LET loop == AnnotateAll(events, <<>>, 1, Len(events))
        annotated == [k \in 1..Len(events) |-> loop.heap[loop.refs[k]]]
        risk(k) == annotated[k].RiskLevel \in config.risk_levels
        by_risk == IF config.risk_levels # {}
                   THEN Keep(annotated, risk, 1) ELSE annotated
        anomaly(k) == Range(by_risk[k].AnomalyTypes) \cap config.anomaly_types # {}
        by_anomaly == IF config.anomaly_types # {}
                      THEN Keep(by_risk, anomaly, 1) ELSE by_risk
        country(k) ==
            Get(by_anomaly[k], "Country", "Unknown") \notin config.excluded_countries
        by_country == IF config.excluded_countries # {}
                      THEN Keep(by_anomaly, country, 1) ELSE by_anomaly
        by_time == IF config.time_filter_type # "None"
                   THEN apply_time_filter(by_country, config) ELSE by_country
    IN IF config.ip_filter_options # {}
       THEN apply_ip_pattern_filter(by_time, config) ELSE by_time

-----------------------------------------------------------------------------
(* Log normalizer, first variant: utils.parse_audit_logs                   *)
(* No known addresses, no private-address test and no cache.               *)

\* utils.py lines 73-100: the geo fields of an event
utils_geo(ip, reader) ==
    IF reader.available /\ ip # "N/A"
    THEN IF ip \in DOMAIN reader.city
         THEN LET response == reader.city[ip] IN
              [geo |-> [Country   |-> StrOrUnknown(response.iso_code),
                        Region    |-> StrOrUnknown(response.subdivision),
                        City      |-> StrOrUnknown(response.city),
                        Latitude  |-> NumOrZero(response.latitude),
                        Longitude |-> NumOrZero(response.longitude)],
               lookups |-> <<ip>>]
         ELSE [geo |-> UnknownRecord, lookups |-> <<ip>>]
    ELSE [geo |-> UnknownRecord, lookups |-> <<>>]

\* utils.py lines 49-104: one pass of the loop body
utils_row(st, label, row, reader) ==
    LET cell == row.AuditData
        append(audit_data) ==
            LET ip  == Get(audit_data, "ClientIP", "N/A")
                res == utils_geo(ip, reader)
                event ==
                    [Timestamp    |-> ToDatetime[row.CreationDate],
                     Operation    |-> row.Operation,
                     UserId       |-> row.UserId,
                     ClientIP     |-> ip,
                     ResultStatus |-> Get(audit_data, "ResultStatus", "N/A"),
                     FileName     |-> IF row.Operation = "FileAccessed"
                                      THEN Get(audit_data, "SourceFileName", "N/A")
                                      ELSE "",
                     Country      |-> res.geo.Country,
                     Region       |-> res.geo.Region,
                     City         |-> res.geo.City,
                     Latitude     |-> res.geo.Latitude,
                     Longitude    |-> res.geo.Longitude]
            IN [st EXCEPT !.timeline = Append(@, event),
                          !.index    = Append(@, label),
                          !.lookups  = @ \o res.lookups]
    IN
    IF cell.type = "str"
    THEN LET parsed == JsonLoads[cell.text] IN
         IF parsed.kind = "JSONDecodeError"
         THEN [st EXCEPT !.printed = @ + 1, !.skipped = @ + 1]
         ELSE IF parsed.kind # "dict"
         THEN [st EXCEPT !.raised = "AttributeError"]
         ELSE append(parsed.value)
    ELSE IF cell.type # "dict"
    THEN [st EXCEPT !.skipped = @ + 1]
    ELSE append(cell.value)

RECURSIVE utils_rows(_, _, _, _, _)
utils_rows(st, rows, order, k, reader) ==
    IF k > Len(order) \/ st.raised # "None" THEN st
    ELSE utils_rows(utils_row(st, order[k], rows[order[k]], reader),
                    rows, order, k + 1, reader)

utils_parse_audit_logs(f, reader, order) ==
    LET fail(type, cols) ==
            [LoopStart EXCEPT !.raised = type] @@ [columns |-> cols]
    IN
    IF Lower(f.extension) \notin {".csv", ".xlsx", ".xls"}
    THEN fail("ValueError: Unsupported file format", <<>>)
    ELSE IF EmptyData(f)
    THEN fail("EmptyDataError: No columns to parse from file", <<>>)
    ELSE IF FirstMissing(f.columns, 1) # <<>>
    THEN fail("ValueError: Required column not found", FirstMissing(f.columns, 1))
    ELSE utils_rows(LoopStart, ReadFile(f), order, 1, reader) @@ [columns |-> <<>>]

UtilsParseAuditLogs ==
    /\ pc = "uploaded"
    /\ LET order == SortValues(file.rows) IN
         LET r == utils_parse_audit_logs(file, geo_reader, order) IN
         /\ pc' = IF r.raised = "None" THEN "parsed" ELSE "failed"
         /\ variant' = "utils"
         /\ timeline' = IF r.raised = "None" THEN r.timeline ELSE <<>>
         /\ index' = IF r.raised = "None" THEN r.index ELSE <<>>
         /\ error' = [type |-> r.raised, columns |-> r.columns]
         /\ warning' = {}
         /\ printed' = r.printed
         /\ skipped' = r.skipped
         /\ lookups' = r.lookups
         /\ ip_geo_cache' = r.cache
    /\ UNCHANGED <<session, file, geo_reader, compromised_events, files_accessed,
                   anomalous_ips, filter_config, filtered_timeline,
                   refiltered>>

-----------------------------------------------------------------------------
(* Log normalizer, second variant: processor.parse_audit_logs              *)
(* It returns (timeline, warning) or (None, error text).                   *)

\* ip.split(":")[0] on the addresses of the model
BeforeColon(ip) == IF ip = "8.8.8.8:443" THEN "8.8.8.8" ELSE ip

\* ':' in ip and not ip.startswith('[') on the addresses of the model
HasColon(ip) == ip = "8.8.8.8:443"

\* processor.py lines 65-98: the geo fields of an event
processor_geo(client_ip, reader) ==
    IF reader.available /\ client_ip # "N/A"
    THEN \* lines 70-71: an address with a colon is cut at the first colon
         LET ip == IF HasColon(client_ip) THEN BeforeColon(client_ip) ELSE client_ip IN
         IF ip \in DOMAIN reader.city
         THEN LET response == reader.city[ip] IN
              [geo |-> [Country   |-> StrOrUnknown(response.iso_code),
                        Region    |-> StrOrUnknown(response.subdivision),
                        City      |-> StrOrUnknown(response.city),
                        Latitude  |-> response.latitude,
                        Longitude |-> response.longitude],
               lookups |-> <<ip>>]
         ELSE [geo |-> [UnknownRecord EXCEPT !.Latitude = "None", !.Longitude = "None"],
               lookups |-> <<ip>>]
    ELSE [geo |-> [UnknownRecord EXCEPT !.Latitude = "None", !.Longitude = "None"],
          lookups |-> <<>>]

\* processor.py lines 48-102: one pass of the loop body
processor_row(st, label, row, reader) ==
    LET cell == row.AuditData IN
    IF cell.type # "str"
    THEN [st EXCEPT !.raised = "Error processing file: TypeError"]
    ELSE LET parsed == JsonLoads[cell.text] IN
         IF parsed.kind = "JSONDecodeError"
         THEN [st EXCEPT !.error_count = @ + 1, !.skipped = @ + 1]
         ELSE IF parsed.kind # "dict"
         THEN [st EXCEPT !.raised = "Error processing file: AttributeError"]
         ELSE
         LET audit_data == parsed.value
             ip  == Get(audit_data, "ClientIP", "N/A")
             res == processor_geo(ip, reader)
             event ==
                 [Timestamp    |-> ToDatetime[row.CreationDate],
                  Operation    |-> row.Operation,
                  UserId       |-> row.UserId,
                  ClientIP     |-> ip,
                  ResultStatus |-> Get(audit_data, "ResultStatus", "N/A"),
                  FileName     |-> IF row.Operation = "FileAccessed"
                                   THEN Get(audit_data, "SourceFileName", "N/A")
                                   ELSE "",
                  Country      |-> res.geo.Country,
                  Region       |-> res.geo.Region,
                  City         |-> res.geo.City,
                  Latitude     |-> res.geo.Latitude,
                  Longitude    |-> res.geo.Longitude]
         IN [st EXCEPT !.timeline = Append(@, event),
                       !.index    = Append(@, label),
                       !.lookups  = @ \o res.lookups]

RECURSIVE processor_rows(_, _, _, _, _)
processor_rows(st, rows, order, k, reader) ==
    IF k > Len(order) \/ st.raised # "None" THEN st
    ELSE processor_rows(processor_row(st, order[k], rows[order[k]], reader),
                        rows, order, k + 1, reader)

\* processor.py lines 24-26: every required column that is absent
MissingColumns(cols) ==
    LET missing(k) == columns_of_interest[k] \notin cols
    IN Keep(columns_of_interest, missing, 1)

processor_parse_audit_logs(f, reader, order) ==
    LET fail(type, cols) ==
            [LoopStart EXCEPT !.raised = type] @@ [columns |-> cols]
        st == processor_rows(LoopStart, ReadFile(f), order, 1, reader)
    IN
    IF EmptyData(f)
    THEN fail("Error processing file: No columns to parse from file", <<>>)
    ELSE IF MissingColumns(f.columns) # <<>>
    THEN fail("Missing required columns", MissingColumns(f.columns))
    ELSE IF ~reader.available
    THEN fail("GeoIP database not found", <<>>)
    ELSE IF st.raised = "None" /\ Len(st.timeline) = 0
    THEN [st EXCEPT !.raised = "No valid data could be parsed from the file"]
             @@ [columns |-> <<>>]
    ELSE st @@ [columns |-> <<>>]

ProcessorParseAuditLogs ==
    /\ pc = "uploaded"
    /\ Lower(file.extension) = ".csv"
    /\ LET order == SortValues(file.rows) IN
         LET r == processor_parse_audit_logs(file, geo_reader, order) IN
         /\ pc' = IF r.raised = "None" THEN "parsed" ELSE "failed"
         /\ variant' = "processor"
         /\ timeline' = IF r.raised = "None" THEN r.timeline ELSE <<>>
         /\ index' = IF r.raised = "None" THEN r.index ELSE <<>>
         /\ error' = [type |-> r.raised, columns |-> r.columns]
         /\ warning' = IF r.raised = "None" /\ r.error_count > 0
                       THEN {r.error_count} ELSE {}
         /\ printed' = r.printed
         /\ skipped' = r.skipped
         /\ lookups' = r.lookups
         /\ ip_geo_cache' = r.cache
    /\ UNCHANGED <<session, file, geo_reader, compromised_events, files_accessed,
                   anomalous_ips, filter_config, filtered_timeline,
                   refiltered>>

-----------------------------------------------------------------------------
(* The session: app_new.py                                                 *)

\* process_data lines 207-236, after parse_audit_logs returned
Analyze ==
    /\ pc = "parsed"
    /\ IF timeline = <<>>
       THEN /\ pc' = "empty"
            /\ UNCHANGED <<session, compromised_events, files_accessed, anomalous_ips>>
       ELSE /\ pc' = "processed"
            /\ compromised_events' = detect_compromised_events(timeline)
            /\ files_accessed' = filter_files_accessed(timeline)
            /\ anomalous_ips' = filter_anomalous_ips(timeline)
    /\ UNCHANGED <<session, file, geo_reader, variant, timeline, index, error, warning, printed,
                   skipped, lookups, ip_geo_cache, filter_config, filtered_timeline,
                   refiltered>>

\* the configurations of the sessions of the model: every risk level
\* deselected, the sidebar's defaults, High risk with the geographic filter's
\* default exclusion, and Cross-country IPs alone
Configs ==
    { EmptyConfig,
      [EmptyConfig EXCEPT !.risk_levels = {"High", "Medium", "Low"}],
      [EmptyConfig EXCEPT !.risk_levels = {"High"}, !.excluded_countries = {"Local"}],
      [EmptyConfig EXCEPT !.ip_filter_options = {"Cross-country IPs"}] }

\* app_new.py lines 263-287: a render applies the sidebar's configuration
ApplyFilters ==
    /\ pc \in {"processed", "rendered"}
    /\ \E config \in Configs :
         /\ filter_config' = config
         /\ filtered_timeline' = apply_filters(timeline, config)
         /\ timeline' = apply_filters_source(timeline)
    /\ pc' = "rendered"
    /\ UNCHANGED <<session, file, geo_reader, variant, index, error, warning, printed,
                   skipped, lookups, ip_geo_cache, compromised_events,
                   files_accessed, anomalous_ips, refiltered>>

NoFile == [extension |-> ".csv", columns |-> RequiredColumns, rows |-> <<>>]

\* app_new.py lines 11-20: the session state of a new session, no
\* current_file yet; uploaded, invoked, displayed and results_of record the
\* last run of the script: the name in the uploader, whether the run called
\* parse_audit_logs, whether it displayed results, and the name of the file
\* the stored lists were computed from
NoSession ==
    [processed |-> FALSE, has_timeline |-> FALSE, current_file |-> "None",
     uploaded |-> "None", invoked |-> FALSE, displayed |-> FALSE,
     results_of |-> "None"]

Blank ==
    /\ variant = "None"
    /\ index = <<>>
    /\ error = NoError
    /\ warning = {}
    /\ printed = 0
    /\ skipped = 0
    /\ lookups = <<>>
    /\ ip_geo_cache = <<>>
    /\ compromised_events = <<>>
    /\ files_accessed = <<>>
    /\ anomalous_ips = <<>>
    /\ filter_config = EmptyConfig
    /\ filtered_timeline = <<>>
    /\ refiltered = <<>>
    /\ session = NoSession

\* a file was uploaded and a database is or is not on disk
Init ==
    /\ file \in Files
    /\ geo_reader \in Readers
    /\ pc = "uploaded"
    /\ timeline = <<>>
    /\ Blank

Next == ParseAuditLogs \/ Analyze \/ ApplyFilters

Spec == Init /\ [][Next]_vars

\* the same uploads read by each of the three parse_audit_logs
VariantsNext == ParseAuditLogs \/ UtilsParseAuditLogs \/ ProcessorParseAuditLogs

SpecVariants == Init /\ [][VariantsNext]_vars

-----------------------------------------------------------------------------
(* Long files: more rows than the sort handles by insertion alone.         *)

\* the largest number of rows of a long file
MaxSortRows == 18

\* row k of a long file: stamped 03:00, or 09:00 when k is in late
SortRow(k, late) ==
    IF k \in late
    THEN Row("2024-01-01T09:00", "SoftDelete", "bob",
             StrCell("{\"ClientIP\": \"8.8.8.8\", \"ResultStatus\": \"Failed\"}"))
    ELSE IF k % 2 = 1
    THEN Row("2024-01-01T03:00", "UserLogin", "bob", StrCell("{}"))
    ELSE Row("2024-01-01T03:00", "PasswordReset", "bob",
             StrCell("{\"ClientIP\": \"5.255.255.5\"}"))

\* files of up to MaxSortRows rows that share one CreationDate, but for at
\* most one later row
SortFiles ==
    { [extension |-> ".csv", columns |-> RequiredColumns,
       rows |-> [k \in 1..n |-> SortRow(k, late)]] :
        n \in 0..MaxSortRows,
        late \in {{}} \cup { {k} : k \in 1..MaxSortRows } }

SortInit ==
    /\ file \in SortFiles
    /\ geo_reader \in Readers
    /\ pc = "uploaded"
    /\ timeline = <<>>
    /\ Blank

SortNext == ParseAuditLogs \/ Analyze

SpecSort == SortInit /\ [][SortNext]_vars

-----------------------------------------------------------------------------
(* Successive uploads in one session: each new file name is processed by   *)
(* a call of parse_audit_logs, with the database found on disk then.       *)

\* the rows of the files of successive uploads
RunRows ==
    { Row("2024-01-01T09:00", "SoftDelete", "bob",
          StrCell("{\"ClientIP\": \"8.8.8.8\", \"ResultStatus\": \"Failed\"}")),
      Row("2024-01-01T03:00", "PasswordReset", "bob",
          StrCell("{\"ClientIP\": \"5.255.255.5\"}")) }

RunFiles ==
    { [extension |-> ".csv", columns |-> RequiredColumns, rows |-> rows] :
        rows \in SeqsUpTo(RunRows, MaxRunRows) }

\* app_new.py lines 242-245: a file of another name is uploaded, also while
\* the run of the previous one is stopped before its parse; the session keeps
\* what the previous file left until process_data stores anew
NewUpload ==
    /\ pc \in {"uploaded", "parsed", "failed", "empty", "processed"}
    /\ file' \in RunFiles
    /\ geo_reader' \in Readers
    /\ pc' = "uploaded"
    /\ UNCHANGED <<session, variant, timeline, index, error, warning, printed, skipped,
                   lookups, ip_geo_cache, compromised_events, files_accessed,
                   anomalous_ips, filter_config, filtered_timeline, refiltered>>

RunsInit ==
    /\ file \in RunFiles
    /\ geo_reader \in Readers
    /\ pc = "uploaded"
    /\ timeline = <<>>
    /\ Blank

RunsNext == ParseAuditLogs \/ Analyze \/ NewUpload

SpecRuns == RunsInit /\ [][RunsNext]_vars

-----------------------------------------------------------------------------
(* The rule engine on timelines of its own: detect_compromised_events,     *)
(* filter_files_accessed and filter_anomalous_ips take any list of events. *)

Event(user, op, ip, country, region) ==
    [Timestamp |-> 9, Operation |-> op, UserId |-> user, ClientIP |-> ip,
     ResultStatus |-> "Succeeded", FileName |-> "",
     Country |-> country, Region |-> region, City |-> "Unknown",
     Latitude |-> "0", Longitude |-> "0"]

\* the events of the longer timelines: two users, five addresses
BatchEvents ==
    { Event("alice", "UserLogin", "192.168.1.160", "RU", "Moscow"),
      Event("alice", "UserLogin", "8.8.8.8", "US", "Massachusetts"),
      Event("alice", "FileAccessed", "203.0.113.5", "RU", "Moscow"),
      Event("alice", "UserLogin", "10.0.0.5", "Local", "Network"),
      Event("alice", "SoftDelete", "8.8.8.8", "US", "Massachusetts"),
      Event("bob", "MoveToDeletedItems", "203.0.113.5", "RU", "Moscow"),
      Event("bob", "UserLogin", "N/A", "Local", "Network"),
      Event("bob", "UserLogin", "5.255.255.5", "US", "California") }

\* the events of the one-event timelines: every address with every location
SingleEvents ==
    { Event("alice", "UserLogin", ip, country, region) :
        ip \in {"192.168.1.160", "8.8.8.8", "N/A"},
        country \in {"US", "CA", "Unknown", "Local"},
        region \in {"Massachusetts", "California", "Unknown"} }

Timelines ==
    SeqsUpTo(BatchEvents, MaxEvents) \cup {<<e>> : e \in SingleEvents}

RulesInit ==
    /\ file = NoFile
    /\ geo_reader = [available |-> FALSE, city |-> <<>>]
    /\ pc = "parsed"
    /\ timeline \in Timelines
    /\ Blank

RulesNext == Analyze

SpecRules == RulesInit /\ [][RulesNext]_vars

-----------------------------------------------------------------------------
(* The filter engine on timelines of its own: apply_filters takes any list *)
(* of events and any configuration.                                        *)

FilterEvent(t, op, user, ip, country, region) ==
    [Timestamp |-> t, Operation |-> op, UserId |-> user, ClientIP |-> ip,
     ResultStatus |-> "Succeeded", FileName |-> "",
     Country |-> country, Region |-> region, City |-> "Unknown",
     Latitude |-> "0", Longitude |-> "0"]

\* the events of the longer timelines; an address has one location, as in
\* the timeline of one run.  132 is Saturday 12:00.
FilterBatch ==
    { FilterEvent(3, "SoftDelete", "alice", "5.255.255.5", "RU", "Moscow"),
      FilterEvent(9, "FileAccessed", "alice", "192.168.1.160", "US", "Massachusetts"),
      FilterEvent(9, "UserLoginFailed", "bob", "5.255.255.5", "RU", "Moscow"),
      FilterEvent(132, "UserLogin", "bob", "8.8.8.8", "US", "Massachusetts"),
      FilterEvent(18, "UserLogin", "bob", "10.0.0.5", "Local", "Network"),
      FilterEvent(20, "PasswordReset", "alice", "8.8.8.8", "US", "Massachusetts"),
      FilterEvent(3, "MoveToDeletedItems", "bob", "10.0.0.5", "Local", "Network"),
      FilterEvent(9, "SoftDelete", "alice", "192.168.1.160", "US", "Massachusetts") }

\* the hours around the ends of the working day, on Monday and on Saturday
ScoreTimes == {7, 8, 17, 18, 19, 23, 132, 140}

\* the events of the one-event timelines: every kind of country with every
\* kind of operation at every time
ScoreEvents ==
    { FilterEvent(t, op, "alice", IF country = "Local" THEN "10.0.0.5" ELSE "8.8.8.8",
                  country, IF country = "Local" THEN "Network" ELSE "Unknown") :
        t \in ScoreTimes,
        op \in {"SoftDelete", "UserLogin", "FileRenamed"},
        country \in {"Unknown", "RU", "BR", "US", "Local"} }

\* the events of the one-event timelines of the operations that carry a
\* word of classify_anomaly_type, by day and by night
LabelEvents ==
    { FilterEvent(t, op, "alice", "8.8.8.8", country, "Massachusetts") :
        t \in {3, 9},
        op \in {"AccessDenied", "AddAdminRole", "ElevateAccess", "GrantPermission",
                "AdminLoginFailed"},
        country \in {"US", "RU"} }

\* one address on more events than the "Frequent IPs" threshold
FrequentTimeline ==
    [k \in 1..(FrequentThreshold + 1) |->
        FilterEvent(9, "UserLogin", "bob", "8.8.8.8", "US", "Massachusetts")]

\* the same, one of the events being of the night
FrequentMixedTimeline ==
    [k \in 1..(FrequentThreshold + 1) |->
        FilterEvent(IF k = 1 THEN 3 ELSE 9, "UserLogin", "bob", "8.8.8.8",
                    "US", "Massachusetts")]

FilterTimelines ==
    SeqsUpTo(FilterBatch, MaxFiltered) \cup {<<e>> : e \in ScoreEvents}
        \cup {<<e>> : e \in LabelEvents}
        \cup {FrequentTimeline, FrequentMixedTimeline}

\* the time dimension: no filter, the four modes of apply_time_filter (the
\* custom range with neither, one or both of its ends) and a mode the
\* function does not know
TimeConfigs ==
    { [EmptyConfig EXCEPT !.time_filter_type = mode] :
        mode \in {"Business Hours Only", "Outside Business Hours",
                  "Weekends Only", "Custom Range", "All Day"} }
    \cup { [EmptyConfig EXCEPT !.time_filter_type = "Custom Range",
                               !.start_time = b[1], !.end_time = b[2]] :
             b \in {<< <<8>>, <<>> >>, << <<>>, <<17>> >>, << <<8>>, <<17>> >>} }

FilterConfigs ==
    { [EmptyConfig EXCEPT !.risk_levels = r, !.anomaly_types = a,
                          !.excluded_countries = c] :
        r \in {{}, {"High"}, {"High", "Medium"}},
        a \in {{}, {"Time Anomaly", "Failed Authentication"}},
        c \in {{}, {"RU"}} }
    \cup TimeConfigs
    \cup { [cfg EXCEPT !.risk_levels = {"High", "Medium"}] : cfg \in TimeConfigs }
    \cup { [EmptyConfig EXCEPT !.ip_filter_options = o, !.time_filter_type = m] :
             o \in {{"First-time IPs"}, {"Single-use IPs"},
                    {"Frequent IPs", "Cross-country IPs"}},
             m \in {"None", "Outside Business Hours", "Business Hours Only"} }

\* apply_filters(timeline, filter_config)
Filter ==
    /\ pc = "processed"
    /\ \E config \in FilterConfigs :
         /\ filter_config' = config
         /\ filtered_timeline' = apply_filters(timeline, config)
         /\ timeline' = apply_filters_source(timeline)
    /\ pc' = "filtered"
    /\ UNCHANGED <<session, file, geo_reader, variant, index, error, warning, printed,
                   skipped, lookups, ip_geo_cache, compromised_events,
                   files_accessed, anomalous_ips, refiltered>>

\* apply_filters on its own output, whose events carry RiskLevel and
\* AnomalyTypes already
FilterAgain ==
    /\ pc = "filtered"
    /\ refiltered' = apply_filters(filtered_timeline, filter_config)
    /\ filtered_timeline' = apply_filters_source(filtered_timeline)
    /\ pc' = "refiltered"
    /\ UNCHANGED <<session, file, geo_reader, variant, timeline, index, error, warning,
                   printed, skipped, lookups, ip_geo_cache, compromised_events,
                   files_accessed, anomalous_ips, filter_config>>

FiltersInit ==
    /\ file = NoFile
    /\ geo_reader = [available |-> FALSE, city |-> <<>>]
    /\ pc = "parsed"
    /\ timeline \in FilterTimelines
    /\ Blank

FiltersNext == Analyze \/ Filter \/ FilterAgain

SpecFilters == FiltersInit /\ [][FiltersNext]_vars

\* the events whose Timestamp is not a time
TimelessEvents ==
    { FilterEvent(t, op, "alice", "8.8.8.8", country, "Massachusetts") :
        t \in {NaT, NoTimestamp, BadTimestamp},
        op \in {"UserLogin", "SoftDelete"},
        country \in {"US", "RU"} }

\* such an event alone, and before an event of Saturday noon
TimelessTimelines ==
    {<<e>> : e \in TimelessEvents}
        \cup {<<e, FilterEvent(132, "UserLogin", "bob", "5.255.255.5", "RU", "Moscow")>> :
                e \in TimelessEvents}

TimelessInit ==
    /\ file = NoFile
    /\ geo_reader = [available |-> FALSE, city |-> <<>>]
    /\ pc = "parsed"
    /\ timeline \in TimelessTimelines
    /\ Blank

SpecTimeless == TimelessInit /\ [][FiltersNext]_vars

-----------------------------------------------------------------------------
(* Sessions on files of events without a public address                    *)

MaxLocalRows == 4

\* the rows of one user from four addresses, one of them absent from the
\* blob, and the rows of another user from a string that is no address and
\* from a reserved address
LocalRows ==
    << Row("2024-01-01T09:00", "SoftDelete", "bob",
           StrCell("{\"ClientIP\": \"8.8.8.8\", \"ResultStatus\": \"Failed\"}")),
       Row("2024-01-01T09:00", "UserLogin", "bob",
           StrCell("{\"ClientIP\": \"10.0.0.5\", \"ResultStatus\": \"Succeeded\"}")),
       Row("2024-01-01T03:00", "UserLogin", "bob", StrCell("{}")),
       Row("2024-01-01T03:00", "PasswordReset", "bob",
           StrCell("{\"ClientIP\": \"5.255.255.5\"}")),
       Row("2024-01-01T09:00", "UserLoginFailed", "alice",
           StrCell("{\"ClientIP\": \"not-an-ip\"}")),
       Row("2024-01-01T03:00", "SoftDelete", "alice",
           StrCell("{\"ClientIP\": \"203.0.113.5\", \"ResultStatus\": \"Succeeded\"}")) >>

\* a file holds some of the rows, each once
LocalFiles ==
    { [extension |-> ".csv", columns |-> RequiredColumns,
       rows |-> LET in(k) == k \in S IN Keep(LocalRows, in, 1)] :
        S \in {T \in SUBSET (1..Len(LocalRows)) : Cardinality(T) <= MaxLocalRows} }

LocalInit ==
    /\ file \in LocalFiles
    /\ geo_reader \in Readers
    /\ pc = "uploaded"
    /\ timeline = <<>>
    /\ Blank

SpecLocal == LocalInit /\ [][Next]_vars

-----------------------------------------------------------------------------
(* The session of app_new: runs of the script on uploads and re-renders    *)

\* the contents of the uploads of a session: a deletion from a public
\* address, a row whose AuditData is not JSON and is skipped, and a row whose
\* AuditData is JSON of a list and raises
SessionFiles ==
    { [extension |-> ".csv", columns |-> RequiredColumns, rows |-> rows] :
        rows \in { <<Row("2024-01-01T09:00", "SoftDelete", "bob",
                         StrCell("{\"ClientIP\": \"8.8.8.8\", \"ResultStatus\": \"Failed\"}"))>>,
                   <<Row("2024-01-01T03:00", "UserLogin", "alice", StrCell("{ClientIP"))>>,
                   <<Row("2024-01-01T09:00", "UserLogin", "alice", StrCell("[1]"))>> } }

\* the uploads: a name and the content behind it
Uploads == { [name |-> n, file |-> f] : n \in {"a.csv", "b.csv"}, f \in SessionFiles }

\* the sidebar of the sessions: untouched (every risk level selected), or
\* High risk with the geographic filter's default exclusion of Local
SessionConfigs ==
    { [EmptyConfig EXCEPT !.risk_levels = {"High", "Medium", "Low"}],
      [EmptyConfig EXCEPT !.risk_levels = {"High"}, !.excluded_countries = {"Local"}] }

\* a run of the script that skips the reset of lines 243-245 on a new name
Render_no_reset ==
    \E up \in Uploads :
      LET reset == FALSE
          processed == IF reset THEN FALSE ELSE session.processed
          s0 == [session EXCEPT !.processed = processed, !.current_file = up.name,
                                !.uploaded = up.name, !.invoked = FALSE,
                                !.displayed = FALSE]
          \* lines 263-470: the filters of the sidebar are applied to the
          \* stored lists and the results shown, unless the run is stopped at
          \* the first st.* call of the display
          Display(tl, s1) ==
              \E config \in SessionConfigs, shown \in BOOLEAN :
                 /\ filter_config' = config
                 /\ filtered_timeline' = apply_filters(tl, config)
                 /\ timeline' = apply_filters_source(tl)
                 /\ session' = [s1 EXCEPT !.displayed = shown]
                 /\ pc' = IF shown THEN "rendered" ELSE "stopped"
      IN
      /\ file' = up.file
      /\ IF processed
         THEN /\ IF session.has_timeline THEN Display(timeline, s0)
                 ELSE /\ pc' = "idle"
                      /\ session' = s0
                      /\ UNCHANGED <<timeline, filter_config, filtered_timeline>>
              /\ UNCHANGED <<variant, index, error, warning, printed, skipped, lookups,
                             ip_geo_cache, compromised_events, files_accessed,
                             anomalous_ips>>
         ELSE \/ \* line 259: the temporary file could not be written; or the
                 \* run is stopped at the st.progress call of line 197
                 /\ pc' \in {"unsaved", "stopped"}
                 /\ session' = s0
                 /\ UNCHANGED <<variant, timeline, index, error, warning, printed,
                                skipped, lookups, ip_geo_cache, compromised_events,
                                files_accessed, anomalous_ips, filter_config,
                                filtered_timeline>>
              \/ \* lines 248-257: process_data
                 LET order == SortValues(up.file.rows) IN
                   LET r == parse_audit_logs(up.file, geo_reader, order)
                       ok == r.raised = "None" /\ r.timeline # <<>>
                       s1 == [s0 EXCEPT !.invoked = TRUE]
                       s2 == [s1 EXCEPT !.processed = TRUE, !.has_timeline = TRUE,
                                        !.results_of = up.name]
                   IN
                   /\ variant' = "security_analyzer"
                   /\ index' = IF r.raised = "None" THEN r.index ELSE <<>>
                   /\ error' = [type |-> r.raised, columns |-> r.columns]
                   /\ warning' = {}
                   /\ printed' = r.printed
                   /\ skipped' = r.skipped
                   /\ lookups' = r.lookups
                   /\ ip_geo_cache' = r.cache
                   /\ IF ~ok
                      THEN \* the exception reaches line 472, or line 207 returns False
                           /\ pc' = IF r.raised # "None" THEN "failed" ELSE "empty"
                           /\ session' = s1
                           /\ UNCHANGED <<timeline, compromised_events, files_accessed,
                                          anomalous_ips, filter_config, filtered_timeline>>
                      ELSE \/ \* the run is stopped at an st.* call of lines 213-218
                              /\ pc' = "stopped"
                              /\ session' = s1
                              /\ UNCHANGED <<timeline, compromised_events,
                                             files_accessed, anomalous_ips,
                                             filter_config, filtered_timeline>>
                           \/ \* lines 221-231: the four lists and processed are
                              \* stored; the run is stopped at an st.* call of
                              \* lines 233-235
                              /\ pc' = "stopped"
                              /\ session' = s2
                              /\ timeline' = r.timeline
                              /\ compromised_events' = detect_compromised_events(r.timeline)
                              /\ files_accessed' = filter_files_accessed(r.timeline)
                              /\ anomalous_ips' = filter_anomalous_ips(r.timeline)
                              /\ UNCHANGED <<filter_config, filtered_timeline>>
                           \/ \* the lists are stored and displayed
                              /\ compromised_events' = detect_compromised_events(r.timeline)
                              /\ files_accessed' = filter_files_accessed(r.timeline)
                              /\ anomalous_ips' = filter_anomalous_ips(r.timeline)
                              /\ Display(r.timeline, s2)
      /\ UNCHANGED <<geo_reader, refiltered>>

\* app_new.py lines 239-475: a run of the script that reaches line 239 with
\* a file in the uploader.  A new name resets processed; a session not
\* processed saves the file and calls process_data, where an exception of
\* parse_audit_logs reaches the except clause of line 472 and an empty
\* timeline returns False; a processed session displays the stored lists
\* under the sidebar's filters.  Streamlit stops a run at an st.* call when
\* the user has touched a widget meanwhile (the exception it raises is not
\* an Exception, so line 472 does not catch it), and what the run has
\* written to session_state stays.
Render ==
    \E up \in Uploads :
      LET reset == session.current_file # up.name
          processed == IF reset THEN FALSE ELSE session.processed
          s0 == [session EXCEPT !.processed = processed, !.current_file = up.name,
                                !.uploaded = up.name, !.invoked = FALSE,
                                !.displayed = FALSE]
          \* lines 263-470: the filters of the sidebar are applied to the
          \* stored lists and the results shown, unless the run is stopped at
          \* the first st.* call of the display
          Display(tl, s1) ==
              \E config \in SessionConfigs, shown \in BOOLEAN :
                 /\ filter_config' = config
                 /\ filtered_timeline' = apply_filters(tl, config)
                 /\ timeline' = apply_filters_source(tl)
                 /\ session' = [s1 EXCEPT !.displayed = shown]
                 /\ pc' = IF shown THEN "rendered" ELSE "stopped"
      IN
      /\ file' = up.file
      /\ IF processed
         THEN /\ IF session.has_timeline THEN Display(timeline, s0)
                 ELSE /\ pc' = "idle"
                      /\ session' = s0
                      /\ UNCHANGED <<timeline, filter_config, filtered_timeline>>
              /\ UNCHANGED <<variant, index, error, warning, printed, skipped, lookups,
                             ip_geo_cache, compromised_events, files_accessed,
                             anomalous_ips>>
         ELSE \/ \* line 259: the temporary file could not be written; or the
                 \* run is stopped at the st.progress call of line 197
                 /\ pc' \in {"unsaved", "stopped"}
                 /\ session' = s0
                 /\ UNCHANGED <<variant, timeline, index, error, warning, printed,
                                skipped, lookups, ip_geo_cache, compromised_events,
                                files_accessed, anomalous_ips, filter_config,
                                filtered_timeline>>
              \/ \* lines 248-257: process_data
                 LET order == SortValues(up.file.rows) IN
                   LET r == parse_audit_logs(up.file, geo_reader, order)
                       ok == r.raised = "None" /\ r.timeline # <<>>
                       s1 == [s0 EXCEPT !.invoked = TRUE]
                       s2 == [s1 EXCEPT !.processed = TRUE, !.has_timeline = TRUE,
                                        !.results_of = up.name]
                   IN
                   /\ variant' = "security_analyzer"
                   /\ index' = IF r.raised = "None" THEN r.index ELSE <<>>
                   /\ error' = [type |-> r.raised, columns |-> r.columns]
                   /\ warning' = {}
                   /\ printed' = r.printed
                   /\ skipped' = r.skipped
                   /\ lookups' = r.lookups
                   /\ ip_geo_cache' = r.cache
                   /\ IF ~ok
                      THEN \* the exception reaches line 472, or line 207 returns False
                           /\ pc' = IF r.raised # "None" THEN "failed" ELSE "empty"
                           /\ session' = s1
                           /\ UNCHANGED <<timeline, compromised_events, files_accessed,
                                          anomalous_ips, filter_config, filtered_timeline>>
                      ELSE \/ \* the run is stopped at an st.* call of lines 213-218
                              /\ pc' = "stopped"
                              /\ session' = s1
                              /\ UNCHANGED <<timeline, compromised_events,
                                             files_accessed, anomalous_ips,
                                             filter_config, filtered_timeline>>
                           \/ \* lines 221-231: the four lists and processed are
                              \* stored; the run is stopped at an st.* call of
                              \* lines 233-235
                              /\ pc' = "stopped"
                              /\ session' = s2
                              /\ timeline' = r.timeline
                              /\ compromised_events' = detect_compromised_events(r.timeline)
                              /\ files_accessed' = filter_files_accessed(r.timeline)
                              /\ anomalous_ips' = filter_anomalous_ips(r.timeline)
                              /\ UNCHANGED <<filter_config, filtered_timeline>>
                           \/ \* the lists are stored and displayed
                              /\ compromised_events' = detect_compromised_events(r.timeline)
                              /\ files_accessed' = filter_files_accessed(r.timeline)
                              /\ anomalous_ips' = filter_anomalous_ips(r.timeline)
                              /\ Display(r.timeline, s2)
      /\ UNCHANGED <<geo_reader, refiltered>>

\* app_new.py lines 37-121: a run that ends before line 239, by the
\* st.rerun() of Reset All Filters (line 121) or stopped at a widget call
RunEndsEarly ==
    /\ \E n \in {"None", "a.csv", "b.csv"} :
          session' = [session EXCEPT !.uploaded = n, !.invoked = FALSE,
                                     !.displayed = FALSE]
    /\ pc' = "stopped"
    /\ UNCHANGED <<file, geo_reader, variant, timeline, index, error, warning, printed,
                   skipped, lookups, ip_geo_cache, compromised_events, files_accessed,
                   anomalous_ips, filter_config, filtered_timeline, refiltered>>

\* app_new.py lines 476-478: a run of the script with the uploader empty
RenderNoFile ==
    /\ pc' = "idle"
    /\ session' = [session EXCEPT !.uploaded = "None", !.invoked = FALSE,
                                  !.displayed = FALSE]
    /\ UNCHANGED <<file, geo_reader, variant, timeline, index, error, warning, printed,
                   skipped, lookups, ip_geo_cache, compromised_events, files_accessed,
                   anomalous_ips, filter_config, filtered_timeline, refiltered>>

\* the databases of the sessions: none on disk, or the one that knows every
\* address of the model
SessionReaders == {r \in Readers : r.available => "203.0.113.5" \in DOMAIN r.city}

\* a session opened with the uploader empty
SessionInit ==
    /\ file = NoFile
    /\ geo_reader \in SessionReaders
    /\ pc = "idle"
    /\ timeline = <<>>
    /\ Blank

SessionNext == Render \/ RenderNoFile \/ RunEndsEarly

SpecSession == SessionInit /\ [][SessionNext]_vars

-----------------------------------------------------------------------------
(* Properties                                                              *)

\* parse_audit_logs returned a timeline
Returned == pc \in {"parsed", "empty", "processed", "rendered"}

\* the file has a readable type and the four required columns
WellFormedFile ==
    /\ Lower(file.extension) \in {".csv", ".xlsx", ".xls"}
    /\ RequiredColumns \subseteq file.columns

Positions(s) == 1..Len(s)

\* C1: for every file with the four required columns the returned events are
\* in non-decreasing Timestamp order, and two events with equal Timestamp
\* are in the order of their rows in the file.  (index holds, for each event,
\* the position of its row in the file.)
C1_SortedAndStable ==
    (Returned /\ WellFormedFile) =>
        \A i, j \in Positions(timeline) :
            i < j => /\ timeline[i].Timestamp <= timeline[j].Timestamp
                     /\ timeline[i].Timestamp = timeline[j].Timestamp
                           => index[i] < index[j]

\* C2: the reference IP is never anomalous, whatever its Country and Region;
\* an event with any other ClientIP is anomalous exactly when its Country is
\* not "US" or its Region is not "Massachusetts".
C2_AnomalousIpBaseline ==
    pc = "processed" =>
        \A k \in Positions(timeline) :
            LET e == timeline[k] IN
            (e \in Range(anomalous_ips)) <=>
                /\ e.ClientIP # "192.168.1.160"
                /\ (e.Country # "US" \/ e.Region # "Massachusetts")

\* a reference-IP event located abroad that was not flagged, beside an
\* event of another address in the US outside Massachusetts that was
C2_Witness ==
    /\ pc = "processed"
    /\ \E e \in Range(timeline) :
          /\ e.ClientIP = "192.168.1.160"
          /\ e.Country = "RU"
          /\ e \notin Range(anomalous_ips)
    /\ \E e \in Range(timeline) :
          /\ e.ClientIP # "192.168.1.160"
          /\ e.Country = "US"
          /\ e.Region = "California"
          /\ e \in Range(anomalous_ips)

\* the distinct ClientIP values of a user's events in the whole timeline
IpsOfUser(user) ==
    {timeline[k].ClientIP : k \in {j \in Positions(timeline) : timeline[j].UserId = user}}

\* C3: the compromised events are exactly the events, in timeline order,
\* whose operation is SoftDelete or MoveToDeletedItems or whose user has more
\* than 3 distinct ClientIP values in the whole batch, and whose IP is
\* anomalous.
C3_CompromisedExactly ==
    pc = "processed" =>
        LET claimed(e) ==
                /\ \/ e.Operation \in {"SoftDelete", "MoveToDeletedItems"}
                   \/ Cardinality(IpsOfUser(e.UserId)) > 3
                /\ e.ClientIP # "192.168.1.160"
                /\ (e.Country # "US" \/ e.Region # "Massachusetts")
        IN compromised_events = SelectSeq(timeline, claimed)

\* alice has exactly 4 distinct IPs and no deletion, and her anomalous events
\* are compromised; bob has a single event, not a deletion, which is anomalous
\* and not compromised
C3_Witness ==
    /\ pc = "processed"
    /\ Cardinality(IpsOfUser("alice")) = 4
    /\ \A e \in Range(timeline) :
          e.Operation \notin {"SoftDelete", "MoveToDeletedItems"}
    /\ \E e \in Range(compromised_events) : e.UserId = "alice"
    /\ \E e \in Range(timeline) : e.UserId = "alice" /\ e \notin Range(compromised_events)

\* the two rows of the end-to-end scenario, in file order
ScenarioRows ==
    << Row("2024-01-01T09:00", "FileAccessed", "alice",
           StrCell("{\"ClientIP\": \"192.168.1.160\", \"ResultStatus\": \"Succeeded\", \"SourceFileName\": \"report.xlsx\"}")),
       Row("2024-01-01T03:00", "SoftDelete", "alice",
           StrCell("{\"ClientIP\": \"203.0.113.5\", \"ResultStatus\": \"Succeeded\"}")) >>

\* the scenario ran to its rendering with nothing configured
ScenarioRendered ==
    /\ pc = "rendered"
    /\ filter_config = EmptyConfig
    /\ WellFormedFile
    /\ file.rows = ScenarioRows
    /\ geo_reader.available
    /\ "203.0.113.5" \in DOMAIN geo_reader.city
    /\ geo_reader.city["203.0.113.5"].iso_code = "RU"

\* C4: in the end-to-end scenario the 03:00 SoftDelete event comes first; the
\* FileAccessed event is not anomalous, not compromised and has FileName
\* report.xlsx; the SoftDelete event is anomalous and compromised, scores
\* 3 + 3 + 1 = 7, is High, and is labelled Access Pattern Anomaly and
\* Geographic Anomaly.
C4_EndToEnd ==
    ScenarioRendered =>
        /\ Len(timeline) = 2
        /\ timeline[1].Operation = "SoftDelete"
        /\ timeline[1].Timestamp = 3
        /\ timeline[2].Operation = "FileAccessed"
        /\ timeline[2].FileName = "report.xlsx"
        /\ timeline[2] \notin Range(anomalous_ips)
        /\ timeline[2] \notin Range(compromised_events)
        /\ timeline[1] \in Range(anomalous_ips)
        /\ timeline[1] \in Range(compromised_events)
        /\ GeographicRisk(timeline[1]) = 3
        /\ OperationRisk(timeline[1]) = 3
        /\ TimeRisk(timeline[1]) = 1
        /\ risk_score(timeline[1]) = 7
        /\ Len(filtered_timeline) = 2
        /\ filtered_timeline[1].RiskLevel = "High"
        /\ {"Access Pattern Anomaly", "Geographic Anomaly"}
              \subseteq Range(filtered_timeline[1].AnomalyTypes)

\* C5: an address in 10.0.0.0/8, 172.16.0.0/12 or 192.168.0.0/16 and the
\* "N/A" sentinel are never passed to the backing source and resolve to
\* Local / Network / Private / 0 / 0, except the reference IP, which resolves
\* to its static record and is never passed to the source either.
C5_PrivateShortCircuit ==
    /\ \A k \in Positions(lookups) :
          /\ ~IsRfc1918(lookups[k])
          /\ lookups[k] # "N/A"
          /\ lookups[k] # "192.168.1.160"
    /\ \A e \in Range(timeline) :
          LET geo == [f \in {"Country", "Region", "City", "Latitude", "Longitude"} |-> e[f]] IN
          /\ e.ClientIP = "192.168.1.160" =>
                geo = [Country |-> "US", Region |-> "Massachusetts", City |-> "Boston",
                       Latitude |-> "42.3601", Longitude |-> "-71.0589"]
          /\ (e.ClientIP # "192.168.1.160" /\ (IsRfc1918(e.ClientIP) \/ e.ClientIP = "N/A")) =>
                geo = [Country |-> "Local", Region |-> "Network", City |-> "Private",
                       Latitude |-> "0", Longitude |-> "0"]

\* a run whose database has entries for 10.0.0.5 and for the reference IP
\* returned an event of each
C5_Witness ==
    /\ Returned
    /\ geo_reader.available
    /\ {"10.0.0.5", "192.168.1.160"} \subseteq DOMAIN geo_reader.city
    /\ \E e \in Range(timeline) : e.ClientIP = "10.0.0.5" /\ e.Country = "Local"
    /\ \E e \in Range(timeline) : e.ClientIP = "192.168.1.160" /\ e.City = "Boston"

\* the AuditData of a row is text that is not JSON
Unparseable(row) ==
    /\ row.AuditData.type = "str"
    /\ JsonLoads[row.AuditData.text].kind = "JSONDecodeError"

ValidLabels == {r \in Positions(file.rows) : IsValidRow(file.rows[r])}

\* the count of skipped rows the caller was handed; none handed is no row
\* reported
ReportedErrors == IF warning = {} THEN 0 ELSE CHOOSE n \in warning : TRUE

\* C6: a batch of one row with unparseable AuditData and N valid rows yields
\* exactly the N events of the valid rows, and an error count of 1 is handed
\* to the caller.
C6_OneUnparseableRow ==
    ( /\ pc # "uploaded"
      /\ WellFormedFile
      /\ Cardinality({r \in Positions(file.rows) : Unparseable(file.rows[r])}) = 1
      /\ Cardinality(ValidLabels) = Len(file.rows) - 1 )
    => /\ Returned
       /\ Len(timeline) = Len(file.rows) - 1
       /\ Range(index) = ValidLabels
       /\ warning = {1}

\* C7: with the four required columns present, normalization completes and
\* returns the events of all well-formed rows, whatever the AuditData of a
\* malformed row is.
C7_MalformedRowNeverAborts ==
    (pc # "uploaded" /\ WellFormedFile)
    => /\ Returned
       /\ Len(timeline) = Cardinality(ValidLabels)
       /\ Range(index) = ValidLabels

\* C8: every skipped row is counted in what the caller is handed: the number
\* of events plus the reported error count is the number of input rows.
C8_EverySkippedRowCounted ==
    (Returned /\ WellFormedFile)
    => Len(timeline) + ReportedErrors = Len(file.rows)

\* C9: for a file that has a header line with a required column absent,
\* normalization fails as a whole before any row is parsed or any IP
\* resolved, returns no timeline, and the failure names every absent column.
C9_MissingColumnsFailFast ==
    ( /\ pc # "uploaded"
      /\ Lower(file.extension) \in {".csv", ".xlsx", ".xls"}
      /\ file.columns # {}
      /\ ~(RequiredColumns \subseteq file.columns) )
    => /\ pc = "failed"
       /\ timeline = <<>>
       /\ skipped = 0
       /\ printed = 0
       /\ lookups = <<>>
       /\ ip_geo_cache = <<>>
       /\ Range(error.columns) = RequiredColumns \ file.columns

GeoFields == {"Country", "Region", "City", "Latitude", "Longitude"}

\* C10 as claimed: every returned event carries the five geo fields and none
\* is None, in every variant of the normalizer and with or without a database.
C10_GeoNeverNull ==
    \A e \in Range(timeline) :
        \A f \in GeoFields : f \in DOMAIN e /\ e[f] # "None"

\* the address processor.py passes to the database: lines 70-71
ProcessorLookup(e) ==
    IF HasColon(e.ClientIP) THEN BeforeColon(e.ClientIP) ELSE e.ClientIP

\* the database gives no value for field f of the location of the event
Unresolved(e, f) ==
    \/ e.ClientIP = "N/A"
    \/ ~geo_reader.available
    \/ ProcessorLookup(e) \notin DOMAIN geo_reader.city
    \/ geo_reader.city[ProcessorLookup(e)][f] = "None"

\* C10: every returned event carries the five geo fields; Country, Region
\* and City are never None in any variant; Latitude and Longitude are never
\* None in security_analyzer.py and utils.py, and in processor.py each is
\* None exactly when the location of the event is not resolved in full: the
\* address is N/A, the lookup fails, or the database holds no such
\* coordinate for the address.
C10_GeoSentinels ==
    \A e \in Range(timeline) :
        /\ GeoFields \subseteq DOMAIN e
        /\ \A f \in {"Country", "Region", "City"} : e[f] # "None"
        /\ variant \in {"security_analyzer", "utils"} =>
              e.Latitude # "None" /\ e.Longitude # "None"
        /\ variant = "processor" =>
              /\ e.Latitude = "None" <=> Unresolved(e, "latitude")
              /\ e.Longitude = "None" <=> Unresolved(e, "longitude")

\* processor.py returned an event of an address the database has no
\* coordinates for, with Latitude and Longitude None and its Country kept,
\* and an event without an address, with Country Unknown and both None
C10_Witness ==
    /\ Returned
    /\ variant = "processor"
    /\ \E e \in Range(timeline) :
          /\ e.ClientIP = "8.8.8.8"
          /\ geo_reader.city[e.ClientIP].latitude = "None"
          /\ e.Country = "CN"
          /\ e.Latitude = "None" /\ e.Longitude = "None"
    /\ \E e \in Range(timeline) :
          /\ e.ClientIP = "N/A"
          /\ e.Country = "Unknown"
          /\ e.Latitude = "None" /\ e.Longitude = "None"

-----------------------------------------------------------------------------
(* Properties of the filter engine                                         *)

\* the counts of apply_ip_pattern_filter's options taken over a list
IpCount(list, ip) == Cardinality({k \in Positions(list) : list[k].ClientIP = ip})
IpCountries(list, ip) == {list[k].Country : k \in {j \in Positions(list) : list[j].ClientIP = ip}}

\* an annotated event meets the dimension of the configuration
MeetsRisk(e, config) == config.risk_levels # {} => e.RiskLevel \in config.risk_levels
MeetsAnomaly(e, config) ==
    config.anomaly_types # {} =>
        \E k \in Positions(e.AnomalyTypes) : e.AnomalyTypes[k] \in config.anomaly_types
MeetsCountry(e, config) == e.Country \notin config.excluded_countries
MeetsTime(e, config) ==
    LET hour == e.Timestamp % 24
        day  == (e.Timestamp \div 24) % 7
    IN /\ config.time_filter_type = "Business Hours Only" =>
            hour \in 8..17 /\ day \in 0..4
       /\ config.time_filter_type = "Outside Business Hours" =>
            hour \notin 8..17 \/ day \in {5, 6}
       /\ config.time_filter_type = "Weekends Only" => day \in {5, 6}
       /\ (config.time_filter_type = "Custom Range"
             /\ config.start_time # <<>> /\ config.end_time # <<>>) =>
            hour \in config.start_time[1]..config.end_time[1]
MeetsIp(e, list, config) ==
    config.ip_filter_options # {} =>
        \/ /\ config.ip_filter_options \cap {"First-time IPs", "Single-use IPs"} # {}
           /\ IpCount(list, e.ClientIP) = 1
        \/ /\ "Frequent IPs" \in config.ip_filter_options
           /\ IpCount(list, e.ClientIP) > FrequentThreshold
        \/ /\ "Cross-country IPs" \in config.ip_filter_options
           /\ Cardinality(IpCountries(list, e.ClientIP)) > 1

\* the annotated source events that meet the risk, anomaly and country
\* dimensions, in source order
MeetingFirstThree ==
    LET meets(k) ==
            LET e == Annotate(timeline[k]) IN
            MeetsRisk(e, filter_config) /\ MeetsAnomaly(e, filter_config)
                /\ MeetsCountry(e, filter_config)
    IN Keep([k \in Positions(timeline) |-> Annotate(timeline[k])], meets, 1)

\* C11: every returned event meets every configured dimension (any one of
\* its labels being in anomaly_types is enough), and with no time or IP
\* dimension configured the result is exactly the input events that meet the
\* risk, anomaly and country dimensions - with risk_levels = {High} and
\* excluded_countries = {RU}, the High events outside RU.
C11_Intersection ==
    pc = "filtered" =>
        /\ \A e \in Range(filtered_timeline) :
              /\ MeetsRisk(e, filter_config)
              /\ MeetsAnomaly(e, filter_config)
              /\ MeetsCountry(e, filter_config)
              /\ MeetsTime(e, filter_config)
              /\ MeetsIp(e, filtered_timeline, filter_config)
        /\ (filter_config.time_filter_type = "None" /\ filter_config.ip_filter_options = {}) =>
              filtered_timeline = MeetingFirstThree

\* High risk outside Russia, applied to a High event in RU and a High event
\* elsewhere, returned the second alone
C11_Witness ==
    /\ pc = "filtered"
    /\ filter_config = [EmptyConfig EXCEPT !.risk_levels = {"High"},
                                           !.excluded_countries = {"RU"}]
    /\ Len(timeline) = 2
    /\ \E k \in Positions(timeline) :
          timeline[k].Country = "RU" /\ Annotate(timeline[k]).RiskLevel = "High"
    /\ Len(filtered_timeline) = 1
    /\ filtered_timeline[1].Country = "Local"
    /\ filtered_timeline[1].RiskLevel = "High"

\* C12: apply_filters with an empty configuration returns every input event
\* in the input order, each with RiskLevel and AnomalyTypes added and its
\* own fields unchanged.
C12_EmptyConfigReturnsAll ==
    (pc = "filtered" /\ filter_config = EmptyConfig /\ timeline # <<>>) =>
        /\ Len(filtered_timeline) = Len(timeline)
        /\ \A k \in Positions(timeline) :
              /\ DOMAIN filtered_timeline[k] =
                    DOMAIN timeline[k] \cup {"RiskLevel", "AnomalyTypes"}
              /\ \A f \in DOMAIN timeline[k] : filtered_timeline[k][f] = timeline[k][f]
              /\ filtered_timeline[k].RiskLevel \in {"High", "Medium", "Low"}
              /\ filtered_timeline[k].AnomalyTypes # <<>>

\* the empty configuration applied to two events of different risk
C12_Witness ==
    /\ pc = "filtered"
    /\ filter_config = EmptyConfig
    /\ Len(filtered_timeline) = 2
    /\ filtered_timeline[1].RiskLevel = "Low"
    /\ filtered_timeline[2].RiskLevel = "High"

\* the dimension restricts: its field is present and not empty, and a custom
\* range has both of its ends
RestrictsTime(config) ==
    /\ config.time_filter_type # "None"
    /\ config.time_filter_type = "Custom Range" =>
          config.start_time # <<>> /\ config.end_time # <<>>

\* C13: a field that is absent or empty removes no event - with no IP
\* option the result is the input events that meet the dimensions present,
\* and a custom range lacking start_time or end_time is no restriction.
C13_AbsentFieldNoRestriction ==
    (pc = "filtered" /\ filter_config.ip_filter_options = {}) =>
        LET meets(k) == RestrictsTime(filter_config) =>
                            MeetsTime(MeetingFirstThree[k], filter_config)
        IN filtered_timeline = Keep(MeetingFirstThree, meets, 1)

\* C14: annotating events that carry RiskLevel and AnomalyTypes from a
\* previous apply_filters call gives every event the RiskLevel and the
\* AnomalyTypes it had.
C14_AnnotationIdempotent ==
    pc = "refiltered" =>
        /\ \A e \in Range(refiltered) : e \in Range(filtered_timeline)
        /\ filter_config = EmptyConfig => refiltered = filtered_timeline

\* a second call returned events of each risk level
C14_Witness ==
    /\ pc = "refiltered"
    /\ Len(refiltered) = 2
    /\ refiltered[1].RiskLevel = "Medium"
    /\ refiltered[2].RiskLevel = "Low"
    /\ refiltered[1].AnomalyTypes = <<"Time Anomaly">>

\* C15: no step of the rule engine or of the filter engine changes the list
\* it is given: the timeline stays as it is through detect_compromised_events,
\* filter_files_accessed, filter_anomalous_ips and apply_filters, and so does
\* the list given to the second apply_filters.
C15_SourceUnchanged ==
    [][ /\ timeline' = timeline
        /\ pc = "filtered" => filtered_timeline' = filtered_timeline ]_vars

\* both calls of apply_filters returned annotated events and the timeline's
\* events carry no annotation
C15_Witness ==
    /\ pc = "refiltered"
    /\ Len(timeline) = 2
    /\ Len(refiltered) = 2
    /\ compromised_events # <<>>
    /\ \A e \in Range(timeline) : "RiskLevel" \notin DOMAIN e
    /\ \A e \in Range(refiltered) : "RiskLevel" \in DOMAIN e

-----------------------------------------------------------------------------
(* Properties of the geolocation cache and of the resolver's failures      *)

\* C16: in one run the database is asked at most once for each distinct
\* ClientIP string: no address occurs twice among the lookups, however many
\* events carry it and whether or not the lookup found it.
C16_OneLookupPerIp ==
    /\ \A i, j \in Positions(lookups) : lookups[i] = lookups[j] => i = j
    /\ Returned => \A k \in Positions(lookups) :
                      \E e \in Range(timeline) : e.ClientIP = lookups[k]

\* two events of an address the database does not hold, resolved with one
\* lookup that failed
C16_Witness ==
    /\ Returned
    /\ geo_reader.available
    /\ Len(timeline) = 2
    /\ timeline[1].ClientIP = "5.255.255.5"
    /\ timeline[2].ClientIP = "5.255.255.5"
    /\ timeline[2].Country = "Unknown"
    /\ lookups = <<"5.255.255.5">>

\* the record the database of this run holds for an address, as an event
\* shows it
Resolved(e) ==
    IF e.ClientIP \in DOMAIN geo_reader.city
    THEN LET name(x) == IF x = "None" THEN "Unknown" ELSE x IN
         /\ e.Country = name(geo_reader.city[e.ClientIP].iso_code)
         /\ e.Region = name(geo_reader.city[e.ClientIP].subdivision)
    ELSE e.Country = "Unknown" /\ e.Region = "Unknown"

\* C17: every call of parse_audit_logs starts with an empty cache: when it
\* returns, the cache holds the addresses of this file only, and every
\* public address of the file was looked up in the database of this call
\* (when there is one) and shows what that database holds.
C17_CacheRunScoped ==
    pc = "parsed" =>
        /\ DOMAIN ip_geo_cache = {e.ClientIP : e \in Range(timeline)}
        /\ \A e \in Range(timeline) :
              e.ClientIP \in {"8.8.8.8", "5.255.255.5"} =>
                 IF geo_reader.available
                 THEN e.ClientIP \in Range(lookups) /\ Resolved(e)
                 ELSE lookups = <<>> /\ e.Country = "Unknown"

\* the previous upload, read without a database, left an 8.8.8.8 event of
\* unknown location in the session; this upload resolved 8.8.8.8 anew
C17_Witness ==
    /\ pc = "parsed"
    /\ \E old \in Range(anomalous_ips) :
          old.ClientIP = "8.8.8.8" /\ old.Country = "Unknown"
    /\ \E e \in Range(timeline) : e.ClientIP = "8.8.8.8" /\ e.Country = "US"
    /\ "8.8.8.8" \in Range(lookups)

\* the lookup of the event's address failed: no database, an address that
\* is not an address, or an address the database does not hold (the
\* addresses of the private and reserved networks are not looked up)
GeoFailure(e) ==
    LET reserved == /\ e.ClientIP \in DOMAIN IpAddress
                    /\ \E net \in PrivateNetworks : InNetwork(IpAddress[e.ClientIP], net)
    IN /\ e.ClientIP \notin DOMAIN KNOWN_IPS
       /\ e.ClientIP # "N/A"
       /\ ~reserved
       /\ \/ e.ClientIP \notin DOMAIN IpAddress
          \/ ~geo_reader.available
          \/ e.ClientIP \notin DOMAIN geo_reader.city

\* C18 as claimed: every geolocation failure resolves to Unknown / Unknown /
\* Unknown / 0 / 0, and a file of valid rows is normalized whatever the
\* database.
C18_GeoFailureUnknown ==
    /\ (WellFormedFile /\ \A k \in Positions(file.rows) : IsValidRow(file.rows[k])) =>
          pc # "failed"
    /\ (Returned /\ variant = "security_analyzer") =>
          \A e \in Range(timeline) :
              GeoFailure(e) =>
                 [f \in GeoFields |-> e[f]] = UnknownRecord

\* C18: no geolocation failure aborts normalization; an address that is not
\* in the database, or any public address when there is no database,
\* resolves to Unknown / Unknown / Unknown / 0 / 0, and a string that is not
\* an address is never passed to the database and resolves to
\* Local / Network / Private / 0 / 0.
C18_GeoFailureSentinels ==
    /\ (WellFormedFile /\ \A k \in Positions(file.rows) : IsValidRow(file.rows[k])) =>
          pc # "failed"
    /\ (Returned /\ variant = "security_analyzer") =>
          \A e \in Range(timeline) :
              GeoFailure(e) =>
                 [f \in GeoFields |-> e[f]] =
                    IF e.ClientIP \in DOMAIN IpAddress
                    THEN [Country |-> "Unknown", Region |-> "Unknown", City |-> "Unknown",
                          Latitude |-> "0", Longitude |-> "0"]
                    ELSE [Country |-> "Local", Region |-> "Network", City |-> "Private",
                          Latitude |-> "0", Longitude |-> "0"]
    /\ variant = "security_analyzer" =>
          \A k \in Positions(lookups) : lookups[k] \in DOMAIN IpAddress

\* a run with a database returned an event of a string that is not an
\* address and an event of an address the database does not hold
C18_Witness ==
    /\ Returned
    /\ variant = "security_analyzer"
    /\ geo_reader.available
    /\ \E e \in Range(timeline) : e.ClientIP = "not-an-ip" /\ e.Country = "Local"
    /\ \E e \in Range(timeline) : e.ClientIP = "5.255.255.5" /\ e.Country = "Unknown"
    /\ lookups = <<"5.255.255.5">>

-----------------------------------------------------------------------------
(* Properties of the risk score                                            *)

\* the points of the operation and of the time of an event, and the level
\* of a score
OperationPoints(e) ==
    CASE e.Operation \in {"SoftDelete", "MoveToDeletedItems", "UserLoginFailed",
                          "PasswordReset"} -> 3
      [] e.Operation \in {"FileAccessed", "FileModified", "UserLogin"} -> 1
      [] OTHER -> 0
TemporalPoints(e) ==
    LET hour == e.Timestamp % 24
        day  == (e.Timestamp \div 24) % 7
    IN (IF hour \in 8..18 THEN 0 ELSE 1) + (IF day \in {5, 6} THEN 1 ELSE 0)
GeographyPoints(e) ==
    CASE e.Country \in {"Unknown", "CN", "RU", "KP", "IR"} -> 3
      [] e.Country \in {"US", "CA", "GB", "DE", "FR", "AU", "JP"} -> 0
      [] OTHER -> 2
LevelOf(score) ==
    CASE score >= 5 -> "High"
      [] score \in 2..4 -> "Medium"
      [] OTHER -> "Low"

\* C19: an event whose Country is Local gets no geography points: its level
\* is that of its operation and temporal points alone.
C19_LocalNoGeographyPoints ==
    pc = "filtered" =>
        \A e \in Range(filtered_timeline) :
            e.Country = "Local" =>
                e.RiskLevel = LevelOf(OperationPoints(e) + TemporalPoints(e))

\* C20: the level of an event whose Country is not Local is the level of
\* the sum of its geography, operation and temporal points; hour 18 adds
\* nothing.
C20_RiskLevelOfScore ==
    pc = "filtered" =>
        \A e \in Range(filtered_timeline) :
            e.Country # "Local" =>
                e.RiskLevel =
                    LevelOf(GeographyPoints(e) + OperationPoints(e) + TemporalPoints(e))

\* a login from the US at 18:00 on a Monday was rated Low
C20_Witness ==
    /\ pc = "filtered"
    /\ Len(filtered_timeline) = 1
    /\ filtered_timeline[1].Country = "US"
    /\ filtered_timeline[1].Operation = "UserLogin"
    /\ filtered_timeline[1].Timestamp = 18
    /\ filtered_timeline[1].RiskLevel = "Low"

-----------------------------------------------------------------------------
(* Properties of the labels, of the stages and of the results as lists     *)

\* the conditions of the five specific labels
LabelCondition(e) ==
    LET hour == e.Timestamp % 24
        day  == (e.Timestamp \div 24) % 7
        has(word) == Contains(e.Operation, word)
    IN    "Geographic Anomaly" :>
             (/\ e.Country \notin {"US", "Local"}
              /\ e.ClientIP # "192.168.1.160"
              /\ (e.Country # "US" \/ e.Region # "Massachusetts"))
       @@ "Time Anomaly" :> (hour < 6 \/ hour > 22 \/ day \in {5, 6})
       @@ "Access Pattern Anomaly" :>
             (e.Operation \in {"SoftDelete", "MoveToDeletedItems", "PasswordReset"})
       @@ "Failed Authentication" :> (has("Failed") \/ has("Denied"))
       @@ "Privilege Escalation" :> (has("Admin") \/ has("Elevate") \/ has("Grant"))

\* C21: the labels of an event are never empty; each of the five specific
\* labels is among them exactly when its own condition holds, and General
\* Anomaly exactly when none of the five conditions holds.
C21_LabelsExact ==
    pc = "filtered" =>
        \A e \in Range(filtered_timeline) :
            LET labels == Range(e.AnomalyTypes) IN
            /\ e.AnomalyTypes # <<>>
            /\ labels \subseteq DOMAIN LabelCondition(e) \cup {"General Anomaly"}
            /\ \A l \in DOMAIN LabelCondition(e) : l \in labels <=> LabelCondition(e)[l]
            /\ "General Anomaly" \in labels <=>
                  \A l \in DOMAIN LabelCondition(e) : ~LabelCondition(e)[l]

\* events of two labels, of three labels and of the general label alone
C21_Witness ==
    /\ pc = "filtered"
    /\ \E e \in Range(filtered_timeline) :
          \/ e.AnomalyTypes = <<"Geographic Anomaly", "Time Anomaly", "Access Pattern Anomaly">>
          \/ e.AnomalyTypes = <<"Time Anomaly", "Failed Authentication", "Privilege Escalation">>
    /\ \E e \in Range(filtered_timeline) : e.AnomalyTypes = <<"General Anomaly">>

\* the events that remain after the risk, anomaly, country and time stages
Survivors ==
    LET meets(k) == MeetsTime(MeetingFirstThree[k], filter_config)
    IN Keep(MeetingFirstThree, meets, 1)

\* C22: with IP options the result is the survivors of the first four
\* stages whose address meets an option, the occurrences and countries of an
\* address being counted among the survivors.
C22_IpCountsOverSurvivors ==
    (pc = "filtered" /\ filter_config.ip_filter_options # {}) =>
        LET meets(k) == MeetsIp(Survivors[k], Survivors, filter_config)
        IN filtered_timeline = Keep(Survivors, meets, 1)

\* two events of one address, one of them outside business hours: First-time
\* IPs after the time stage selected the one that remained
C22_Witness ==
    /\ pc = "filtered"
    /\ filter_config.ip_filter_options = {"First-time IPs"}
    /\ filter_config.time_filter_type = "Outside Business Hours"
    /\ Len(timeline) = 2
    /\ timeline[1].ClientIP = timeline[2].ClientIP
    /\ Len(filtered_timeline) = 1

InBusinessHours(e) ==
    /\ (e.Timestamp % 24) \in 8..17
    /\ ((e.Timestamp \div 24) % 7) \in 0..4

\* C23: alone, Business Hours Only returns the events of Monday to Friday
\* with hour 8 to 17, Outside Business Hours all the others, and Weekends
\* Only the events of Saturday and Sunday.
C23_TimeModes ==
    LET mode == filter_config.time_filter_type
        annotated == [k \in Positions(timeline) |-> Annotate(timeline[k])]
        retained(k) ==
            CASE mode = "Business Hours Only" -> InBusinessHours(timeline[k])
              [] mode = "Outside Business Hours" -> ~InBusinessHours(timeline[k])
              [] OTHER -> ((timeline[k].Timestamp \div 24) % 7) \in {5, 6}
    IN (/\ pc = "filtered"
        /\ mode \in {"Business Hours Only", "Outside Business Hours", "Weekends Only"}
        /\ filter_config = [EmptyConfig EXCEPT !.time_filter_type = mode]) =>
           filtered_timeline = Keep(annotated, retained, 1)

\* Outside Business Hours returned an event of Monday 18:00
C23_Witness ==
    /\ pc = "filtered"
    /\ filter_config = [EmptyConfig EXCEPT !.time_filter_type = "Outside Business Hours"]
    /\ Len(filtered_timeline) = 1
    /\ filtered_timeline[1].Timestamp = 18

\* C24: under a configuration that restricts nothing but the time, an event
\* whose Timestamp is not a time is returned under each of the four time
\* modes, and its level is that of its geography and operation points.
C24_TimelessRetained ==
    (/\ pc = "filtered"
     /\ filter_config.time_filter_type \in {"Business Hours Only", "Outside Business Hours",
                                             "Weekends Only", "Custom Range"}
     /\ filter_config.risk_levels = {}
     /\ filter_config.anomaly_types = {}
     /\ filter_config.excluded_countries = {}
     /\ filter_config.ip_filter_options = {}) =>
        \A k \in Positions(timeline) :
            timeline[k].Timestamp < 0 =>
                \E e \in Range(filtered_timeline) :
                    /\ \A f \in DOMAIN timeline[k] : e[f] = timeline[k][f]
                    /\ e.RiskLevel = LevelOf(GeographyPoints(e) + OperationPoints(e))

\* C26: apply_filters applied to its own output under the same configuration
\* returns that output: the same events, in the same order, with the same
\* annotations.
C26_FiltersIdempotent ==
    pc = "refiltered" => refiltered = filtered_timeline

\* of two events of one address the time stage and First-time IPs kept one,
\* of several labels, and the second call returned the same
C26_Witness ==
    /\ pc = "refiltered"
    /\ filter_config.ip_filter_options = {"First-time IPs"}
    /\ filter_config.time_filter_type = "Outside Business Hours"
    /\ Len(timeline) = 2
    /\ Len(refiltered) = 1
    /\ Len(refiltered[1].AnomalyTypes) >= 2

\* a is b with some of its items left out
RECURSIVE IsSubseq(_, _)
IsSubseq(a, b) ==
    IF a = <<>> THEN TRUE
    ELSE IF b = <<>> THEN FALSE
    ELSE IF Head(a) = Head(b) THEN IsSubseq(Tail(a), Tail(b))
    ELSE IsSubseq(a, Tail(b))

\* C27: the result of apply_filters is the annotated input with some events
\* left out, nothing added, repeated or moved; the anomalous events are the
\* timeline with some left out, and the compromised events are the anomalous
\* events with some left out.
C27_Subsequences ==
    /\ pc \in {"processed", "filtered", "refiltered"} =>
          /\ IsSubseq(anomalous_ips, timeline)
          /\ IsSubseq(compromised_events, anomalous_ips)
    /\ pc = "filtered" =>
          IsSubseq(filtered_timeline, [k \in Positions(timeline) |-> Annotate(timeline[k])])
    /\ pc = "refiltered" => IsSubseq(refiltered, filtered_timeline)

\* a deletion from the reference address, not anomalous, before a deletion
\* from Russia, and a filter that kept one of the two
C27_Witness ==
    /\ pc = "filtered"
    /\ Len(timeline) = 2
    /\ timeline[1].ClientIP = "192.168.1.160"
    /\ timeline[1].Operation = "SoftDelete"
    /\ anomalous_ips = <<timeline[2]>>
    /\ compromised_events = <<timeline[2]>>
    /\ Len(filtered_timeline) = 1

-----------------------------------------------------------------------------
(* Properties of the fields of the normalized events                       *)

\* the mapping in the AuditData cell of the row of the k-th event
BlobOf(k) ==
    LET cell == file.rows[index[k]].AuditData
    IN IF cell.type = "dict" THEN cell.value ELSE JsonLoads[cell.text].value

\* C25: FileName is the empty string unless Operation is FileAccessed, and
\* then it is the blob's SourceFileName, or N/A when the blob has none;
\* ClientIP is the blob's ClientIP, or N/A when the blob has none.
C25_FileNameAndClientIP ==
    pc \in {"parsed", "processed", "rendered"} =>
        \A k \in Positions(timeline) :
            LET e == timeline[k]
                blob == BlobOf(k)
            IN /\ e.FileName =
                    IF e.Operation # "FileAccessed" THEN ""
                    ELSE IF "SourceFileName" \in DOMAIN blob THEN blob.SourceFileName
                    ELSE "N/A"
               /\ e.ClientIP =
                    IF "ClientIP" \in DOMAIN blob THEN blob.ClientIP ELSE "N/A"

\* a FileModified event whose blob names a file, with the empty FileName,
\* beside a FileAccessed event whose blob names none
C25_Witness ==
    /\ pc = "parsed"
    /\ \E k \in Positions(timeline) :
          /\ timeline[k].Operation = "FileModified"
          /\ "SourceFileName" \in DOMAIN BlobOf(k)
          /\ timeline[k].FileName = ""
    /\ \E k \in Positions(timeline) :
          /\ timeline[k].Operation = "FileAccessed"
          /\ timeline[k].FileName = "N/A"

CrossCountryOnly == [EmptyConfig EXCEPT !.ip_filter_options = {"Cross-country IPs"}]

\* C28: two events of one run with the same ClientIP carry the same geo
\* fields, and Cross-country IPs alone selects no event of any part of the
\* run's events.
C28_OneRecordPerIp ==
    pc \in {"parsed", "processed", "rendered"} =>
        /\ \A i, j \in Positions(timeline) :
              timeline[i].ClientIP = timeline[j].ClientIP =>
                  \A f \in GeoFields : timeline[i][f] = timeline[j][f]
        /\ \A S \in SUBSET Positions(timeline) :
              LET in(k) == k \in S
              IN apply_filters(Keep(timeline, in, 1), CrossCountryOnly) = <<>>
        /\ pc = "rendered" /\ filter_config = CrossCountryOnly
              => filtered_timeline = <<>>

\* two events of one address, and a render with Cross-country IPs alone
C28_Witness ==
    /\ pc = "rendered"
    /\ filter_config = CrossCountryOnly
    /\ Len(timeline) >= 2
    /\ timeline[1].ClientIP = timeline[2].ClientIP
    /\ timeline[1].UserId # timeline[2].UserId
    /\ filtered_timeline = <<>>

-----------------------------------------------------------------------------
(* Properties of the events without a public address                       *)

\* no ClientIP in the blob, a string that is no address, or an address of a
\* private network other than the reference address
IsLocalCase(ip) ==
    \/ ip = "N/A"
    \/ ip \notin DOMAIN IpAddress
    \/ /\ ip # "192.168.1.160"
       /\ \E net \in PrivateNetworks : InNetwork(IpAddress[ip], net)

\* C29: an event whose ClientIP is N/A, is no address or is a private address
\* other than the reference address has Country Local and is among the
\* anomalous events; it is among the compromised events exactly when its
\* operation is a deletion or its user has more than 3 distinct ClientIP
\* values, N/A being one; it is never labelled Geographic Anomaly.
C29_LocalAnomalousNotGeographic ==
    /\ pc \in {"parsed", "processed", "rendered"} =>
          \A e \in Range(timeline) : IsLocalCase(e.ClientIP) => e.Country = "Local"
    /\ pc \in {"processed", "rendered"} =>
          \A e \in Range(timeline) :
              IsLocalCase(e.ClientIP) =>
                  /\ e \in Range(anomalous_ips)
                  /\ e \in Range(compromised_events) <=>
                        \/ e.Operation \in {"SoftDelete", "MoveToDeletedItems"}
                        \/ Cardinality(IpsOfUser(e.UserId)) > SuspiciousThreshold
    /\ pc = "rendered" =>
          \A e \in Range(filtered_timeline) :
              IsLocalCase(e.ClientIP) =>
                  "Geographic Anomaly" \notin Range(e.AnomalyTypes)

\* a login without ClientIP of a user seen from N/A and three addresses:
\* Local, compromised by the count alone, and shown without the geographic
\* label
C29_Witness ==
    /\ pc = "rendered"
    /\ \E e \in Range(timeline) :
          /\ e.ClientIP = "N/A"
          /\ e.Operation = "UserLogin"
          /\ e.Country = "Local"
          /\ IpsOfUser(e.UserId) = {"N/A", "8.8.8.8", "10.0.0.5", "5.255.255.5"}
          /\ e \in Range(compromised_events)
    /\ \E e \in Range(filtered_timeline) :
          /\ e.ClientIP = "N/A"
          /\ "Geographic Anomaly" \notin Range(e.AnomalyTypes)

-----------------------------------------------------------------------------
(* Properties of the session of app_new                                    *)

\* C30: over the runs of a session, processed becomes True only in a run
\* where parse_audit_logs returned a non-empty timeline and the four lists
\* were stored; a run of a processed session under an unchanged file name
\* does not call parse_audit_logs; a run that takes up a new file name leaves
\* processed False unless it processed that file; and a run displays results
\* only of the file in the uploader, so the results of a previous file are
\* never displayed under a name whose processing failed.
C30_SessionStateMachine ==
    [][ /\ (session'.processed /\ ~(session.processed
                                    /\ session'.current_file = session.current_file)) =>
              /\ session'.invoked
              /\ error'.type = "None"
              /\ timeline' # <<>>
              /\ session'.has_timeline
              /\ session'.results_of = session'.current_file
              /\ compromised_events' = detect_compromised_events(timeline')
              /\ files_accessed' = filter_files_accessed(timeline')
              /\ anomalous_ips' = filter_anomalous_ips(timeline')
        /\ (session.processed /\ session'.uploaded = session.current_file) =>
              ~session'.invoked
        /\ (session'.uploaded \notin {"None", session.current_file}) =>
              (session'.displayed => session'.invoked /\ session'.processed)
        /\ session'.displayed =>
              /\ session'.processed
              /\ session'.results_of = session'.uploaded
      ]_vars

\* the lists of a.csv are stored, b.csv was uploaded and its parsing raised:
\* the session is not processed and the run displayed nothing
C30_Witness ==
    /\ session.uploaded = "b.csv"
    /\ session.current_file = "b.csv"
    /\ session.results_of = "a.csv"
    /\ session.has_timeline /\ timeline # <<>>
    /\ session.invoked
    /\ pc = "failed"
    /\ ~session.processed
    /\ ~session.displayed

====
